---------------------------- MODULE Spec2Model ----------------------------
(***************************************************************************)
(* A model of the SADAK copy-on-write block filesystem (Rust crate         *)
(* sadak_fs): checksum engine, block cache, bitmap allocator and the       *)
(* filesystem entry points mount / format / create_file / sync, over an    *)
(* in-memory block device.                                                 *)
(*                                                                         *)
(* Representation notes.                                                   *)
(*  - A byte buffer is a pair (data, len): len is the buffer's length and  *)
(*    data is the sequence of its bytes up to the last non-zero one; the   *)
(*    bytes from Len(data) + 1 to len are zero.  Byte offset o of the Rust *)
(*    buffer is position o + 1.  A block is such a buffer with             *)
(*    len = BLOCK_SIZE, so only `data` is stored.                          *)
(*  - A u32 is kept as its 4 little-endian bytes (TLC integers are 32-bit  *)
(*    signed, so 0xFFFFFFFF is not an integer of the model checker).       *)
(*  - u64 fields are integers below 2^31 and are encoded in 8 bytes.       *)
(*  - The on-disk layouts follow the #[repr(C)] structs of fs.rs on a      *)
(*    little-endian 64-bit target.                                         *)
(***************************************************************************)
EXTENDS Integers, Sequences, FiniteSets, TLC

VARIABLES
    dev,      \* the block device: capacity and block contents
    fs,       \* the SadakFs handle held by the caller, or NoFs
    ret,      \* what the last operation returned
    devOps,   \* the device calls issued by the last operation, in order
    entry,    \* the cache entry the last operation held when it returned
    hist,     \* history: outstanding allocations, last commit, last halt
    nops,     \* number of operations performed
    mirror,   \* the Raid1Device a caller holds (with its members), or NoMirror
    mret,     \* what the last call on the mirror returned, and the member calls it made
    mhist,    \* history of the mirror: number of calls, last acknowledged write per block
    summed,   \* the last buffer given to checksum_data and the checksum returned
    host,     \* the last call on the host-backed device: arguments, trap results, traps, result
    thr,      \* the threads calling allocate_block: position, cache entry held, result
    locks,    \* the holder of the allocator lock and of the cache lock (0: free)
    thist     \* history of the threads: LBAs returned, last completed mutation per block

fsvars == <<dev, fs, ret, devOps, entry, hist, nops>>

mvars == <<mirror, mret, mhist>>

\* the state of the routines that are exercised on their own
xvars == <<summed, host, thr, locks, thist>>

vars == <<dev, fs, ret, devOps, entry, hist, nops, mirror, mret, mhist,
          summed, host, thr, locks, thist>>

-----------------------------------------------------------------------------
(* Bounds of the model *)

DevBlocks == 4
MaxOps == 4
MaxFaults == 1

-----------------------------------------------------------------------------
(* Program constants *)

BLOCK_SIZE == 4096
BLOCKS_PER_BITMAP_BLOCK == BLOCK_SIZE * 8
\* fs.rs writes the literal 0x5ADAKF5, which is not a hexadecimal number;
\* the model uses the literal without the letter K as the magic value.
SADAK_MAGIC == 5954293
SADAK_VERSION == 1

-----------------------------------------------------------------------------
(* Bytes and little-endian fields *)

RECURSIVE XorBits(_, _, _)
XorBits(a, b, n) ==
    IF n = 0 THEN 0
    ELSE ((a + b) % 2) + 2 * XorBits(a \div 2, b \div 2, n - 1)

\* a ^ b on u8, tabulated once
Xor8 == [a \in 0..255 |-> [b \in 0..255 |-> XorBits(a, b, 8)]]

\* a ^ b on u32 (4 little-endian bytes)
Xor32(p, q) ==
    <<Xor8[p[1]][q[1]], Xor8[p[2]][q[2]], Xor8[p[3]][q[3]], Xor8[p[4]][q[4]]>>

\* a >> 1 on u32
Shr1(p) ==
    <<(p[1] \div 2) + 128 * (p[2] % 2),
      (p[2] \div 2) + 128 * (p[3] % 2),
      (p[3] \div 2) + 128 * (p[4] % 2),
      p[4] \div 2>>

\* a >> 8 on u32
Shr8(p) == <<p[2], p[3], p[4], 0>>

Pow256 == <<1, 256, 65536, 16777216>>

\* the n little-endian bytes of v (0 <= v < 2^31)
LE(v, n) == [i \in 1..n |-> IF i <= 4 THEN (v \div Pow256[i]) % 256 ELSE 0]

\* the value of a little-endian field (below 2^31 in every image of the model)
LEVal(b) == b[1] + 256 * b[2] + 65536 * b[3] + 16777216 * b[4]

\* the byte at position i of a buffer stored as `data`
Byte(data, i) == IF i <= Len(data) THEN data[i] ELSE 0

\* bytes [off, off + n) of a buffer
Field(data, off, n) == [i \in 1..n |-> Byte(data, off + i)]

\* position of the last non-zero byte of s[lo..hi], or 0
RECURSIVE LastNonZero(_, _, _)
LastNonZero(s, lo, hi) ==
    IF lo > hi THEN 0
    ELSE IF lo = hi THEN (IF s[lo] # 0 THEN lo ELSE 0)
    ELSE LET mid == (lo + hi) \div 2
             right == LastNonZero(s, mid + 1, hi)
         IN  IF right # 0 THEN right ELSE LastNonZero(s, lo, mid)

\* the stored form of a buffer whose bytes are s
Trim(s) == SubSeq(s, 1, LastNonZero(s, 1, Len(s)))

\* the buffer `data` with the byte at position i replaced by b
WithByte(data, i, b) ==
    Trim([j \in 1..(IF i > Len(data) THEN i ELSE Len(data)) |->
             IF j = i THEN b ELSE Byte(data, j)])

ZeroBlock == <<>>

-----------------------------------------------------------------------------
(* checksum.rs *)

CRC32C_POLY == <<120, 59, 246, 130>>        \* 0x82F63B78
CRC32C_INITIAL == <<255, 255, 255, 255>>    \* 0xFFFFFFFF

RECURSIVE TableEntry(_, _)
TableEntry(crc, j) ==
    IF j = 8 THEN crc
    ELSE TableEntry(IF crc[1] % 2 = 1 THEN Xor32(Shr1(crc), CRC32C_POLY)
                                      ELSE Shr1(crc),
                    j + 1)

init_crc32c_table == [i \in 0..255 |-> TableEntry(<<i, 0, 0, 0>>, 0)]

CRC32C_TABLE == init_crc32c_table

\* one iteration of the loop of calculate_crc32c
CrcStep(crc, byte) ==
    Xor32(Shr8(crc), CRC32C_TABLE[Xor8[crc[1]][byte]])

\* the loop of calculate_crc32c over the stored bytes data[lo..hi], in index
\* order (the left half is evaluated before the right half is entered)
RECURSIVE CrcLoop(_, _, _, _)
CrcLoop(crc, data, lo, hi) ==
    IF lo > hi THEN crc
    ELSE IF lo = hi THEN CrcStep(crc, data[lo])
    ELSE LET mid == (lo + hi) \div 2
             left == CrcLoop(crc, data, lo, mid)
         IN  IF left[1] >= 0 THEN CrcLoop(left, data, mid + 1, hi) ELSE left

\* The loop over the zero bytes that follow the stored ones.  An iteration
\* with byte = 0 maps crc to (crc >> 8) ^ TABLE[crc & 0xFF], which is linear
\* over GF(2) in the bits of crc, so the image of crc is the XOR of the images
\* of its four bytes.  ZeroTabs[j][pos][v + 1] is the image, under 2^(j-1)
\* such iterations, of the word whose byte pos is v and whose others are 0.
ByteWord(pos, v) ==
    <<IF pos = 1 THEN v ELSE 0, IF pos = 2 THEN v ELSE 0,
      IF pos = 3 THEN v ELSE 0, IF pos = 4 THEN v ELSE 0>>

ApplyTab(tab, crc) ==
    Xor32(Xor32(tab[1][crc[1] + 1], tab[2][crc[2] + 1]),
          Xor32(tab[3][crc[3] + 1], tab[4][crc[4] + 1]))

\* one iteration with byte = 0 (tab empty), or the iterations of tab twice
ZeroStep(tab, crc) ==
    IF tab = <<>> THEN CrcStep(crc, 0) ELSE ApplyTab(tab, ApplyTab(tab, crc))

\* the images of the words whose byte pos is lo..hi
RECURSIVE TabRow(_, _, _, _)
TabRow(tab, pos, lo, hi) ==
    IF lo = hi THEN <<ZeroStep(tab, ByteWord(pos, lo))>>
    ELSE LET mid == (lo + hi) \div 2
         IN  TabRow(tab, pos, lo, mid) \o TabRow(tab, pos, mid + 1, hi)

RECURSIVE BuildZeroTabs(_, _)
BuildZeroTabs(tabs, more) ==
    IF more = 0 THEN tabs
    ELSE LET prev == IF tabs = <<>> THEN <<>> ELSE tabs[Len(tabs)]
             next == <<TabRow(prev, 1, 0, 255), TabRow(prev, 2, 0, 255),
                       TabRow(prev, 3, 0, 255), TabRow(prev, 4, 0, 255)>>
         IN  IF Len(next[4]) = 256 THEN BuildZeroTabs(Append(tabs, next), more - 1) ELSE tabs

\* tables for 1, 2, 4, ..., 4096 zero bytes
ZeroTabs == BuildZeroTabs(<<>>, 13)

\* crc after k further iterations with byte = 0 (k <= 8191)
RECURSIVE ZeroRun(_, _, _)
ZeroRun(crc, k, j) ==
    IF k = 0 THEN crc
    ELSE LET next == IF k % 2 = 1 THEN ApplyTab(ZeroTabs[j], crc) ELSE crc
         IN  IF next[1] >= 0 THEN ZeroRun(next, k \div 2, j + 1) ELSE next

\* calculate_crc32c over the buffer (data, len)
calculate_crc32c(data, len, initial_crc) ==
    Xor32(ZeroRun(CrcLoop(Xor32(initial_crc, CRC32C_INITIAL), data, 1, Len(data)),
                  len - Len(data), 1),
          CRC32C_INITIAL)

checksum_data(data, len) == calculate_crc32c(data, len, CRC32C_INITIAL)

-----------------------------------------------------------------------------
(* Results and errors *)

\* Every error value is a record of three strings: the SadakFsError (or
\* AllocatorError) variant, the wrapped variant, and the innermost value.
Error(layer, kind, detail) == [layer |-> layer, kind |-> kind, detail |-> detail]

Ok(v) == [ok |-> TRUE, val |-> v]
Err(e) == [ok |-> FALSE, err |-> e]

\* sahne_syscalls.rs, SyscallResult = isize: the least value of an isize,
\* taken 32 bits wide (the width of a pointer on a 32-bit target)
ISIZE_MIN == -2147483647 - 1

\* sahne_syscalls.rs, SyscallError::from_raw.  isize::abs as it returns: the
\* least isize has no positive counterpart and, where the overflow is not
\* checked, is its own absolute value (where it is checked, see FromRaw)
Abs(n) == IF n = ISIZE_MIN THEN n ELSE IF n < 0 THEN -n ELSE n

from_raw(raw_code) ==
    CASE Abs(raw_code) = 1001 -> "EIO"
      [] Abs(raw_code) = 1002 -> "EINVAL"
      [] Abs(raw_code) = 1003 -> "ENOMEM"
      [] Abs(raw_code) = 1004 -> "EAGAIN"
      [] OTHER -> "Unknown(" \o ToString(raw_code) \o ")"

\* the negative result a failing host trap returns in the model
HostFailure == -1004

\* the error value of the in-memory device when a read or a flush fails
DeviceFault == "DeviceFault"

-----------------------------------------------------------------------------
(* block_device.rs: the BlockDevice contract, over an in-memory device.    *)
(* A block that was never stored reads as zeroes.                          *)

total_blocks(d) == d.cap

BlockOf(d, id) == IF id \in DOMAIN d.blocks THEN d.blocks[id] ELSE ZeroBlock

\* a call made on the device (id is -1 for a flush)
DevOp(op, id) == [op |-> op, id |-> id]

\* read_block: fills the buffer, or fails (injected fault, or id past the end)
read_block(d, id, fails) ==
    IF fails \/ id >= d.cap THEN Err(DeviceFault) ELSE Ok(BlockOf(d, id))

\* write_block on the in-memory device.  A call that fails may have stored
\* nothing or the whole block.
Stored(d, id, data) ==
    [d EXCEPT !.blocks = [b \in DOMAIN @ \cup {id} |-> IF b = id THEN data ELSE @[b]]]

Landings == {"none", "all"}

write_block(d, id, data, fails, lands) ==
    IF id >= d.cap THEN [res |-> Err(DeviceFault), dev |-> d]
    ELSE IF fails
    THEN [res |-> Err(DeviceFault),
          dev |-> IF lands = "none" THEN d ELSE Stored(d, id, data)]
    ELSE [res |-> Ok(0), dev |-> Stored(d, id, data)]

\* flush on the in-memory device
flush(d, fails) == IF fails THEN Err(DeviceFault) ELSE Ok(0)

-----------------------------------------------------------------------------
(* raid.rs: Raid1Device over member devices.  `failing` is the set of       *)
(* members (numbered from 1, in construction order) whose call fails, and   *)
(* `lands` says what the write of a failing member leaves in its block.     *)

\* the error value member i returns: D::Error, told apart by member
MemberError(e, i) == <<e, i>>

RaidError(kind, errors) == [kind |-> kind, errors |-> errors]

\* one call made on a member
MemberCall(i, op, id, ok) == [member |-> i, op |-> op, id |-> id, ok |-> ok]

MinOf(S) == CHOOSE x \in S : \A y \in S : x <= y

\* a constructor that settles for the smallest capacity when capacities differ
Raid1DeviceNew_taking_min(devices) ==
    IF Len(devices) < 2
    THEN Err(RaidError("NotEnoughDevices", <<>>))
    ELSE Ok([devices |-> devices,
             total_blocks |-> MinOf({total_blocks(devices[i]) : i \in DOMAIN devices})])

\* Raid1Device::new
Raid1DeviceNew(devices) ==
    IF Len(devices) < 2
    THEN Err(RaidError("NotEnoughDevices", <<>>))
    ELSE LET min_blocks == MinOf({total_blocks(devices[i]) : i \in DOMAIN devices})
             mismatch == \E i \in DOMAIN devices : total_blocks(devices[i]) # min_blocks
         IN  IF mismatch
             THEN Err(RaidError("SizeMismatch", <<>>))
             ELSE Ok([devices |-> devices, total_blocks |-> min_blocks])

\* Raid1Device::total_blocks
raid_total_blocks(m) == m.total_blocks

\* the loop of Raid1Device::read_block from member i on
RECURSIVE RaidReadFrom(_, _, _, _, _, _)
RaidReadFrom(devices, i, id, failing, errors, calls) ==
    IF i > Len(devices)
    THEN [res |-> Err(RaidError("IoError", errors)), calls |-> calls]
    ELSE LET r == read_block(devices[i], id, i \in failing)
         IN  IF r.ok
             THEN [res |-> Ok(r.val), calls |-> Append(calls, MemberCall(i, "read", id, TRUE))]
             ELSE RaidReadFrom(devices, i + 1, id, failing,
                               Append(errors, MemberError(r.err, i)),
                               Append(calls, MemberCall(i, "read", id, FALSE)))

\* a read that asks the first member only
raid_read_block_first_only(m, id, failing) ==
    RaidReadFrom(SubSeq(m.devices, 1, 1), 1, id, failing, <<>>, <<>>)

\* a read that goes on to the later members after a success and returns the
\* bytes of the last member that succeeded
RECURSIVE RaidReadAll(_, _, _, _, _, _, _)
RaidReadAll(devices, i, id, failing, errors, calls, found) ==
    IF i > Len(devices)
    THEN [res |-> IF found = <<>> THEN Err(RaidError("IoError", errors)) ELSE Ok(found[1]),
          calls |-> calls]
    ELSE LET r == read_block(devices[i], id, i \in failing)
         IN  IF r.ok
             THEN RaidReadAll(devices, i + 1, id, failing, errors,
                              Append(calls, MemberCall(i, "read", id, TRUE)), <<r.val>>)
             ELSE RaidReadAll(devices, i + 1, id, failing,
                              Append(errors, MemberError(r.err, i)),
                              Append(calls, MemberCall(i, "read", id, FALSE)), found)

raid_read_block_all_members(m, id, failing) ==
    RaidReadAll(m.devices, 1, id, failing, <<>>, <<>>, <<>>)

\* Raid1Device::read_block
raid_read_block(m, id, failing) == RaidReadFrom(m.devices, 1, id, failing, <<>>, <<>>)

\* the loop of Raid1Device::write_block from member i on
RECURSIVE RaidWriteFrom(_, _, _, _, _, _, _, _, _)
RaidWriteFrom(devices, i, id, data, failing, lands, errors, successful_writes, calls) ==
    IF i > Len(devices)
    THEN [res |-> IF successful_writes < Len(devices)
                  THEN Err(RaidError("IoError", errors)) ELSE Ok(0),
          devices |-> devices, calls |-> calls]
    ELSE LET w == write_block(devices[i], id, data, i \in failing, lands)
             after == [devices EXCEPT ![i] = w.dev]
         IN  IF w.res.ok
             THEN RaidWriteFrom(after, i + 1, id, data, failing, lands, errors,
                                successful_writes + 1,
                                Append(calls, MemberCall(i, "write", id, TRUE)))
             ELSE RaidWriteFrom(after, i + 1, id, data, failing, lands,
                                Append(errors, MemberError(w.res.err, i)),
                                successful_writes,
                                Append(calls, MemberCall(i, "write", id, FALSE)))

\* the first member in `failing`, or the number of members when there is none
FirstFailing(devices, failing) ==
    IF \E i \in DOMAIN devices : i \in failing
    THEN MinOf({i \in DOMAIN devices : i \in failing})
    ELSE Len(devices)

\* a write that is satisfied with one member's acknowledgement
raid_write_block_any_ack(m, id, data, failing, lands) ==
    LET o == RaidWriteFrom(m.devices, 1, id, data, failing, lands, <<>>, 0, <<>>)
    IN  [o EXCEPT !.res = IF \E i \in DOMAIN o.calls : o.calls[i].ok THEN Ok(0) ELSE @]

\* a write that gives up at the first member that fails
raid_write_block_stopping(m, id, data, failing, lands) ==
    LET k == FirstFailing(m.devices, failing)
        o == RaidWriteFrom(SubSeq(m.devices, 1, k), 1, id, data, failing, lands, <<>>, 0, <<>>)
    IN  [o EXCEPT !.devices = @ \o SubSeq(m.devices, k + 1, Len(m.devices))]

\* Raid1Device::write_block
raid_write_block(m, id, data, failing, lands) ==
    RaidWriteFrom(m.devices, 1, id, data, failing, lands, <<>>, 0, <<>>)

\* the loop of Raid1Device::flush from member i on
RECURSIVE RaidFlushFrom(_, _, _, _, _, _)
RaidFlushFrom(devices, i, failing, errors, successful_flushes, calls) ==
    IF i > Len(devices)
    THEN [res |-> IF successful_flushes < Len(devices)
                  THEN Err(RaidError("IoError", errors)) ELSE Ok(0),
          calls |-> calls]
    ELSE LET r == flush(devices[i], i \in failing)
         IN  IF r.ok
             THEN RaidFlushFrom(devices, i + 1, failing, errors, successful_flushes + 1,
                                Append(calls, MemberCall(i, "flush", -1, TRUE)))
             ELSE RaidFlushFrom(devices, i + 1, failing,
                                Append(errors, MemberError(r.err, i)), successful_flushes,
                                Append(calls, MemberCall(i, "flush", -1, FALSE)))

\* a flush that gives up at the first member that fails
raid_flush_stopping(m, failing) ==
    RaidFlushFrom(SubSeq(m.devices, 1, FirstFailing(m.devices, failing)), 1, failing,
                  <<>>, 0, <<>>)

\* Raid1Device::flush
raid_flush(m, failing) == RaidFlushFrom(m.devices, 1, failing, <<>>, 0, <<>>)

-----------------------------------------------------------------------------
(* cache.rs *)

NoEntry == [block_id |-> -1, data |-> <<>>, is_dirty |-> FALSE]

CacheBlock(id, data, dirty) == [block_id |-> id, data |-> data, is_dirty |-> dirty]

\* BlockCache::get_block.  Host calls: k = MEMORY_ALLOCATE, k + 1 = the
\* device read; f is the index of the host call that fails (0: none).
\* There is no map: every call builds a new entry from the device.
get_block(d, id, f, k) ==
    IF f = k
    THEN [res |-> Err("from(ENOMEM)"), ops |-> <<>>]
    ELSE LET r == read_block(d, id, f = k + 1)
         IN  IF r.ok
             THEN [res |-> Ok(CacheBlock(id, r.val, FALSE)), ops |-> <<DevOp("read", id)>>]
             ELSE [res |-> Err(r.err), ops |-> <<DevOp("read", id)>>]

-----------------------------------------------------------------------------
(* allocator.rs *)

\* Allocator::new.  Host call k = LOCK_CREATE.
AllocatorNew(d, bitmap_start_id, f, k) ==
    IF f = k
    THEN Err(Error("Allocator", "Syscall", from_raw(HostFailure)))
    ELSE Ok([bitmap_start_id |-> bitmap_start_id,
             bitmap_block_count |->
                 (total_blocks(d) + BLOCKS_PER_BITMAP_BLOCK - 1) \div BLOCKS_PER_BITMAP_BLOCK,
             total_blocks |-> total_blocks(d),
             locked |-> FALSE])

\* index (from 1) of the first stored byte of bitmap[lo..hi] that is not
\* 0xFF, or 0
RECURSIVE FirstNotFull(_, _, _)
FirstNotFull(bitmap, lo, hi) ==
    IF lo > hi THEN 0
    ELSE IF lo = hi THEN (IF bitmap[lo] # 255 THEN lo ELSE 0)
    ELSE LET mid == (lo + hi) \div 2
             left == FirstNotFull(bitmap, lo, mid)
         IN  IF left # 0 THEN left ELSE FirstNotFull(bitmap, mid + 1, hi)

\* byte & (1 << bit_index)
BitOf(byte, bit_index) == (byte \div (2 ^ bit_index)) % 2

RECURSIVE LowestZeroBit(_, _)
LowestZeroBit(byte, bit_index) ==
    IF BitOf(byte, bit_index) = 0 THEN bit_index ELSE LowestZeroBit(byte, bit_index + 1)

\* Allocator::find_free_bit: <<byte_index, bit_index>> from 0, or <<>> for None
find_free_bit(bitmap) ==
    LET stored == FirstNotFull(bitmap, 1, Len(bitmap))
        at == IF stored # 0 THEN stored
              ELSE IF Len(bitmap) < BLOCK_SIZE THEN Len(bitmap) + 1
              ELSE 0
    IN  IF at = 0 THEN <<>> ELSE <<at - 1, LowestZeroBit(Byte(bitmap, at), 0)>>

\* *byte_mut |= 1 << bit_index
SetBit(bitmap, byte_index, bit_index) ==
    LET byte == Byte(bitmap, byte_index + 1)
    IN  WithByte(bitmap, byte_index + 1,
                 IF BitOf(byte, bit_index) = 1 THEN byte ELSE byte + 2 ^ bit_index)

\* the loop of Allocator::allocate_block from bitmap block i on.  Host calls
\* of iteration i are k + 2i and k + 2i + 1.  `locked` is the state the
\* allocator lock is left in.
RECURSIVE AllocScan(_, _, _, _, _, _)
AllocScan(d, a, i, f, k, ops) ==
    IF i >= a.bitmap_block_count
    THEN [res |-> Err(Error("Allocator", "OutOfSpace", "-")), locked |-> FALSE,
          ops |-> ops, entry |-> NoEntry]
    ELSE LET g == get_block(d, a.bitmap_start_id + i, f, k + 2 * i)
         IN  IF ~g.res.ok
             THEN \* `?`: returns with the allocator lock still held
                  [res |-> Err(Error("Allocator", "DeviceError", g.res.err)),
                   locked |-> TRUE, ops |-> ops \o g.ops, entry |-> NoEntry]
             ELSE LET bit == find_free_bit(g.res.val.data)
                  IN  IF bit # <<>>
                      THEN [res |-> Ok(i * BLOCKS_PER_BITMAP_BLOCK + bit[1] * 8 + bit[2]),
                            locked |-> FALSE,
                            ops |-> ops \o g.ops,
                            entry |-> CacheBlock(a.bitmap_start_id + i,
                                                 SetBit(g.res.val.data, bit[1], bit[2]),
                                                 TRUE)]
                      ELSE AllocScan(d, a, i + 1, f, k, ops \o g.ops)

\* Allocator::allocate_block (the caller has found the allocator lock free)
allocate_block(d, a, f, k) == AllocScan(d, a, 0, f, k, <<>>)

\* number of host calls an allocate_block on allocator a can make
AllocCalls(a) == 2 * a.bitmap_block_count

\* Allocator::free_block: a stub that returns Ok(()) and touches nothing
free_block(d, a, id) == [res |-> Ok(0), locked |-> a.locked, ops |-> <<>>, entry |-> NoEntry]

-----------------------------------------------------------------------------
(* fs.rs: on-disk layouts (#[repr(C)], little-endian, 64-bit)              *)

\* Superblock field offsets; bytes 10..15 are alignment padding, bytes
\* 52.. are the `padding` array
SB_MAGIC == 0
SB_VERSION == 8
SB_TOTAL_BLOCKS == 16
SB_METADATA_ROOT_ID == 24
SB_BITMAP_START_ID == 32
SB_TIMESTAMP == 40
SB_CHECKSUM == 48
SB_PADDING == 52

Superblock(total, root, bitmap_start, timestamp, checksum) ==
    [magic |-> SADAK_MAGIC, version |-> SADAK_VERSION, total_blocks |-> total,
     metadata_root_id |-> root, bitmap_start_id |-> bitmap_start,
     timestamp |-> timestamp, checksum |-> checksum]

\* `*sb_ptr = new_sb`: the block image after the struct is copied over it.
\* The copy covers the whole block; the alignment padding after `version`
\* holds whatever the struct's memory held (align_fill).
StoreSuperblock(sb, align_fill) ==
    Trim(LE(sb.magic, 8) \o LE(sb.version, 2)
         \o [i \in 1..(SB_TOTAL_BLOCKS - SB_VERSION - 2) |-> align_fill]
         \o LE(sb.total_blocks, 8) \o LE(sb.metadata_root_id, 8)
         \o LE(sb.bitmap_start_id, 8) \o LE(sb.timestamp, 8) \o sb.checksum)

\* `sb_ptr.read()`: the struct read back from a block image
LoadSuperblock(data) ==
    [magic |-> LEVal(Field(data, SB_MAGIC, 8)),
     version |-> LEVal(Field(data, SB_VERSION, 2) \o <<0, 0>>),
     total_blocks |-> LEVal(Field(data, SB_TOTAL_BLOCKS, 8)),
     metadata_root_id |-> LEVal(Field(data, SB_METADATA_ROOT_ID, 8)),
     bitmap_start_id |-> LEVal(Field(data, SB_BITMAP_START_ID, 8)),
     timestamp |-> LEVal(Field(data, SB_TIMESTAMP, 8)),
     checksum |-> Field(data, SB_CHECKSUM, 4)]

\* superblock.magic != SADAK_MAGIC, compared on the 8 bytes of the field
MagicDiffers(data) == Field(data, SB_MAGIC, 8) # LE(SADAK_MAGIC, 8)

\* the test of mount: calculated_crc != superblock.checksum, where
\* calculated_crc is taken over the block as it was read
ChecksumDiffers(data) == checksum_data(data, BLOCK_SIZE) # Field(data, SB_CHECKSUM, 4)

\* Inode field offsets; bytes 33..39 are alignment padding, the struct is
\* 184 bytes long
INO_FILE_SIZE == 0
INO_BLOCK_COUNT == 8
INO_CREATION_TIME == 16
INO_MODIFICATION_TIME == 24
INO_FILE_TYPE == 32
INO_DATA_TREE_ROOT == 40
INO_LINK_COUNT == 48
INO_CHECKSUM == 52
INO_PADDING == 56
INO_SIZE == 184

NoInode ==
    [file_size |-> -1, block_count |-> -1, creation_time |-> -1,
     modification_time |-> -1, file_type |-> -1, data_tree_root |-> -1,
     link_count |-> -1, checksum |-> <<0, 0, 0, 0>>]

\* `*inode_ptr = new_inode`: the first INO_SIZE bytes of the block are
\* overwritten, the rest keeps what was read from the device
StoreInode(data, ino, align_fill) ==
    Trim(LE(ino.file_size, 8) \o LE(ino.block_count, 8) \o LE(ino.creation_time, 8)
         \o LE(ino.modification_time, 8) \o <<ino.file_type>>
         \o [i \in 1..(INO_DATA_TREE_ROOT - INO_FILE_TYPE - 1) |-> align_fill]
         \o LE(ino.data_tree_root, 8) \o LE(ino.link_count, 4) \o ino.checksum
         \o [i \in 1..(INO_SIZE - INO_PADDING) |-> 0]
         \o SubSeq(data, INO_SIZE + 1, Len(data)))

-----------------------------------------------------------------------------
(* fs.rs: the filesystem handle and its entry points.                      *)
(* Each entry point is an operator from the device, the handle and its     *)
(* inputs to the returned Result, the handle afterwards, the device calls  *)
(* issued and the cache entry last held.  f is the index of the host call  *)
(* (trap or device call) of the entry point that fails, 0 for none.        *)

NoFs == [live |-> FALSE]

NoError == Error("-", "-", "-")

\* SadakFsError::InvalidSuperblock
InvalidSuperblock == Error("InvalidSuperblock", "-", "-")

SadakFs(superblock, allocator, root_id) ==
    [live |-> TRUE, superblock |-> superblock, allocator |-> allocator,
     metadata_tree |-> [root_id |-> root_id], locked |-> FALSE]

Outcome(res, handle, ops, e, blocked) ==
    [res |-> res, fs |-> handle, ops |-> ops, entry |-> e, blocked |-> blocked,
     got |-> <<>>]

\* the same outcome, with the LBAs that allocate_block handed out inside it
Got(o, lbas) == [o EXCEPT !.got = lbas]

\* a mount that reports every failure to load block 0 as InvalidSuperblock
mount_reporting_invalid(d, f) ==
    IF f = 1
    THEN Outcome(Err(Error("Syscall", from_raw(HostFailure), "-")), NoFs, <<>>, NoEntry, FALSE)
    ELSE LET g == get_block(d, 0, f, 2)
         IN  IF ~g.res.ok
             THEN Outcome(Err(InvalidSuperblock), NoFs, g.ops, NoEntry, FALSE)
             ELSE LET data == g.res.val.data
                      superblock == LoadSuperblock(data)
                  IN  IF MagicDiffers(data) \/ ChecksumDiffers(data)
                      THEN Outcome(Err(InvalidSuperblock), NoFs, g.ops,
                                   g.res.val, FALSE)
                      ELSE LET a == AllocatorNew(d, superblock.bitmap_start_id, f, 4)
                           IN  IF ~a.ok
                               THEN Outcome(Err(a.err), NoFs, g.ops, g.res.val, FALSE)
                               ELSE IF f = 5
                               THEN Outcome(Err(Error("Device", "from(" \o from_raw(HostFailure) \o ")", "-")),
                                            NoFs, g.ops, g.res.val, FALSE)
                               ELSE IF f = 6
                               THEN Outcome(Err(Error("Syscall", from_raw(HostFailure), "-")),
                                            NoFs, g.ops, g.res.val, FALSE)
                               ELSE Outcome(Ok(0),
                                            SadakFs(superblock, a.val, superblock.metadata_root_id),
                                            g.ops, g.res.val, FALSE)

\* SadakFs::mount.  Host calls: 1 LOCK_CREATE (cache), 2 MEMORY_ALLOCATE,
\* 3 read of block 0, 4 LOCK_CREATE (allocator), 5 LOCK_CREATE (B-tree),
\* 6 LOCK_CREATE (filesystem).
mount(d, f) ==
    IF f = 1
    THEN Outcome(Err(Error("Syscall", from_raw(HostFailure), "-")), NoFs, <<>>, NoEntry, FALSE)
    ELSE LET g == get_block(d, 0, f, 2)
         IN  IF ~g.res.ok
             THEN Outcome(Err(Error("Device", g.res.err, "-")), NoFs, g.ops, NoEntry, FALSE)
             ELSE LET data == g.res.val.data
                      superblock == LoadSuperblock(data)
                  IN  IF MagicDiffers(data) \/ ChecksumDiffers(data)
                      THEN Outcome(Err(InvalidSuperblock), NoFs, g.ops,
                                   g.res.val, FALSE)
                      ELSE LET a == AllocatorNew(d, superblock.bitmap_start_id, f, 4)
                           IN  IF ~a.ok
                               THEN Outcome(Err(a.err), NoFs, g.ops, g.res.val, FALSE)
                               ELSE IF f = 5
                               THEN Outcome(Err(Error("Device", "from(" \o from_raw(HostFailure) \o ")", "-")),
                                            NoFs, g.ops, g.res.val, FALSE)
                               ELSE IF f = 6
                               THEN Outcome(Err(Error("Syscall", from_raw(HostFailure), "-")),
                                            NoFs, g.ops, g.res.val, FALSE)
                               ELSE Outcome(Ok(0),
                                            SadakFs(superblock, a.val, superblock.metadata_root_id),
                                            g.ops, g.res.val, FALSE)

MountCalls == 6

\* SadakFs::format.  With n = bitmap_block_count, host calls: 1 LOCK_CREATE
\* (filesystem), 2 LOCK_CREATE (cache), 3 LOCK_CREATE (allocator),
\* 4 .. 3 + 2n allocate_block, 4 + 2n LOCK_CREATE (B-tree),
\* 5 + 2n MEMORY_ALLOCATE, 6 + 2n read of block 0, 7 + 2n flush.
format(d, f, align_fill) ==
    IF f = 1 \/ f = 2
    THEN Outcome(Err(Error("Syscall", from_raw(HostFailure), "-")), NoFs, <<>>, NoEntry, FALSE)
    ELSE LET bitmap_start_id == 1
             a == AllocatorNew(d, bitmap_start_id, f, 3)
         IN  IF ~a.ok
             THEN Outcome(Err(a.err), NoFs, <<>>, NoEntry, FALSE)
             ELSE LET n == a.val.bitmap_block_count
                      m == allocate_block(d, a.val, f, 4)
                  IN  IF ~m.res.ok
                      THEN Outcome(Err(m.res.err), NoFs, m.ops, m.entry, FALSE)
                      ELSE IF f = 4 + 2 * n
                      THEN Got(Outcome(Err(Error("Device", "from(" \o from_raw(HostFailure) \o ")", "-")),
                                       NoFs, m.ops, m.entry, FALSE), <<m.res.val>>)
                      ELSE LET metadata_root_id == m.res.val
                               g == get_block(d, 0, f, 5 + 2 * n)
                           IN  IF ~g.res.ok
                               THEN Got(Outcome(Err(Error("Device", g.res.err, "-")), NoFs,
                                                m.ops \o g.ops, m.entry, FALSE),
                                        <<metadata_root_id>>)
                               ELSE LET new_sb == Superblock(total_blocks(d), metadata_root_id,
                                                             bitmap_start_id, 0, <<0, 0, 0, 0>>)
                                        first == StoreSuperblock(new_sb, align_fill)
                                        stamped == [new_sb EXCEPT !.checksum = checksum_data(first, BLOCK_SIZE)]
                                        image == StoreSuperblock(stamped, align_fill)
                                        ops == (m.ops \o g.ops) \o <<DevOp("flush", -1)>>
                                        e == CacheBlock(0, image, TRUE)
                                    IN  IF f = 7 + 2 * n
                                        THEN Got(Outcome(Err(Error("Device", DeviceFault, "-")), NoFs,
                                                         ops, e, FALSE),
                                                 <<metadata_root_id>>)
                                        ELSE Got(Outcome(Ok(0),
                                                         SadakFs(stamped, a.val, metadata_root_id),
                                                         ops, e, FALSE),
                                                 <<metadata_root_id>>)

FormatCalls(d) ==
    7 + 2 * ((total_blocks(d) + BLOCKS_PER_BITMAP_BLOCK - 1) \div BLOCKS_PER_BITMAP_BLOCK)

\* a sync that advances the timestamp of its superblock before it flushes
sync_stamping_first(d, h, f) ==
    IF h.locked
    THEN [res |-> Ok(0), fs |-> h, ops |-> <<>>, entry |-> NoEntry, blocked |-> TRUE, got |-> <<>>]
    ELSE [res |-> IF f = 1 THEN Err(Error("Device", DeviceFault, "-")) ELSE Ok(0),
          fs |-> [h EXCEPT !.locked = (f = 1), !.superblock.timestamp = @ + 1],
          ops |-> <<DevOp("flush", -1)>>, entry |-> NoEntry, blocked |-> FALSE, got |-> <<>>]

\* SadakFs::sync.  Host call: 1 flush.  The lock is not released on the
\* error path.
sync(d, h, f) ==
    IF h.locked
    THEN Outcome(Ok(0), h, <<>>, NoEntry, TRUE)
    ELSE IF f = 1
    THEN Outcome(Err(Error("Device", DeviceFault, "-")), [h EXCEPT !.locked = TRUE],
                 <<DevOp("flush", -1)>>, NoEntry, FALSE)
    ELSE Outcome(Ok(0), h, <<DevOp("flush", -1)>>, NoEntry, FALSE)

SyncCalls == 1

\* SadakFs::get_system_time: the trap's result, or its decoded error
get_system_time(result) ==
    IF result < 0 THEN Err(Error("Syscall", from_raw(result), "-")) ELSE Ok(result)

Inode(file_size, creation_time, modification_time, data_tree_root, checksum) ==
    [file_size |-> file_size, block_count |-> 0, creation_time |-> creation_time,
     modification_time |-> modification_time, file_type |-> 1,
     data_tree_root |-> data_tree_root, link_count |-> 1, checksum |-> checksum]

\* SadakFs::create_file.  With n = bitmap_block_count, host calls:
\* 1 .. 2n first allocate_block, 2n + 1 .. 4n second allocate_block,
\* 4n + 1 and 4n + 2 GET_SYSTEM_TIME, 4n + 3 MEMORY_ALLOCATE, 4n + 4 read of
\* the inode block.  Every `?` returns with the filesystem lock held.
create_file(d, h, file_size, now, f, align_fill) ==
    IF h.locked
    THEN Outcome(Ok(0), h, <<>>, NoEntry, TRUE)
    ELSE IF h.allocator.locked
    THEN Outcome(Ok(0), [h EXCEPT !.locked = TRUE], <<>>, NoEntry, TRUE)
    ELSE
    LET n == h.allocator.bitmap_block_count
        held == [h EXCEPT !.locked = TRUE]
        m1 == allocate_block(d, h.allocator, f, 1)
    IN  IF ~m1.res.ok
        THEN Outcome(Err(m1.res.err), [held EXCEPT !.allocator.locked = m1.locked],
                     m1.ops, m1.entry, FALSE)
        ELSE
        LET inode_block_id == m1.res.val
            m2 == allocate_block(d, h.allocator, f, 2 * n + 1)
        IN  IF ~m2.res.ok
            THEN Got(Outcome(Err(m2.res.err), [held EXCEPT !.allocator.locked = m2.locked],
                             m1.ops \o m2.ops, m1.entry, FALSE),
                     <<inode_block_id>>)
            ELSE
            LET data_root_id == m2.res.val
                got == <<inode_block_id, data_root_id>>
                ops2 == m1.ops \o m2.ops
                t1 == get_system_time(IF f = 4 * n + 1 THEN HostFailure ELSE now)
                t2 == get_system_time(IF f = 4 * n + 2 THEN HostFailure ELSE now)
            IN  IF ~t1.ok THEN Got(Outcome(Err(t1.err), held, ops2, m2.entry, FALSE), got)
                ELSE IF ~t2.ok THEN Got(Outcome(Err(t2.err), held, ops2, m2.entry, FALSE), got)
                ELSE
                LET g == get_block(d, inode_block_id, f, 4 * n + 3)
                IN  IF ~g.res.ok
                    THEN Got(Outcome(Err(Error("Device", g.res.err, "-")), held,
                                     ops2 \o g.ops, m2.entry, FALSE), got)
                    ELSE
                    LET new_inode == Inode(file_size, t1.val, t2.val, data_root_id, <<0, 0, 0, 0>>)
                        first == StoreInode(g.res.val.data, new_inode, align_fill)
                        stamped == [new_inode EXCEPT !.checksum = checksum_data(first, BLOCK_SIZE)]
                        image == StoreInode(first, stamped, align_fill)
                    IN  Got(Outcome(Ok(stamped), h, ops2 \o g.ops,
                                    CacheBlock(inode_block_id, image, TRUE), FALSE), got)

CreateFileCalls(h) == 4 * h.allocator.bitmap_block_count + 4

-----------------------------------------------------------------------------
(* Observers used by the history variables *)

RECURSIVE OnesIn(_, _)
OnesIn(byte, n) == IF n = 0 THEN 0 ELSE (byte % 2) + OnesIn(byte \div 2, n - 1)

Ones8 == [b \in 0..255 |-> OnesIn(b, 8)]

\* number of set bits in bytes lo..hi of a bitmap block
RECURSIVE PopCount(_, _, _)
PopCount(bitmap, lo, hi) ==
    IF lo > hi THEN 0
    ELSE IF lo = hi THEN Ones8[bitmap[lo]]
    ELSE LET mid == (lo + hi) \div 2
             left == PopCount(bitmap, lo, mid)
         IN  IF left >= 0 THEN left + PopCount(bitmap, mid + 1, hi) ELSE left

\* number of set bits in the bitmap region of allocator a on device d
RECURSIVE SetBits(_, _, _)
SetBits(d, a, i) ==
    IF i >= a.bitmap_block_count THEN 0
    ELSE LET bitmap == BlockOf(d, a.bitmap_start_id + i)
         IN  PopCount(bitmap, 1, Len(bitmap)) + SetBits(d, a, i + 1)

\* the bitmap bit of LBA id as allocator a finds it on device d
BitmapBit(d, a, id) ==
    BitOf(Byte(BlockOf(d, a.bitmap_start_id + (id \div BLOCKS_PER_BITMAP_BLOCK)),
               ((id % BLOCKS_PER_BITMAP_BLOCK) \div 8) + 1),
          id % 8)

\* s without its first occurrence of x
RECURSIVE RemoveOne(_, _)
RemoveOne(s, x) ==
    IF s = <<>> THEN <<>>
    ELSE IF Head(s) = x THEN Tail(s)
    ELSE <<Head(s)>> \o RemoveOne(Tail(s), x)

Range(s) == {s[i] : i \in DOMAIN s}

-----------------------------------------------------------------------------
(* The devices the model starts from *)

\* a bitmap block whose first byte is b0 and whose other bytes are zero
BitmapBlock(b0) == Trim(<<b0>>)

\* a new device: every block reads as zeroes
BlankDevice == [cap |-> DevBlocks, blocks |-> [id \in {} |-> ZeroBlock]]

\* a volume whose block 0 carries a checksum equal to the CRC of the block
\* as stored (0x3F32CF88), root 3, bitmap at 1 with blocks 0, 1 and 3 marked
SelfCheckedSuperblock == Superblock(4, 3, 1, 0, <<136, 207, 50, 63>>)

SelfCheckedVolume ==
    [cap |-> DevBlocks,
     blocks |-> [id \in {0, 1} |-> IF id = 0 THEN StoreSuperblock(SelfCheckedSuperblock, 0)
                                   ELSE BitmapBlock(11)]]

\* a volume whose block 0 carries the checksum format stamps (the CRC of the
\* block taken with the checksum field zero), root 2, blocks 0, 1, 2 marked
StampedSuperblock ==
    LET sb == Superblock(DevBlocks, 2, 1, 0, <<0, 0, 0, 0>>)
    IN  [sb EXCEPT !.checksum = checksum_data(StoreSuperblock(sb, 0), BLOCK_SIZE)]

StampedVolume ==
    [cap |-> DevBlocks,
     blocks |-> [id \in {0, 1} |-> IF id = 0 THEN StoreSuperblock(StampedSuperblock, 0)
                                   ELSE BitmapBlock(7)]]

InitialDevices == {BlankDevice, SelfCheckedVolume, StampedVolume}

\* a volume that mounts (block 0 as in SelfCheckedVolume) and whose bitmap
\* marks every LBA below the capacity of the device
FullVolume ==
    [cap |-> DevBlocks,
     blocks |-> [id \in {0, 1} |-> IF id = 0 THEN StoreSuperblock(SelfCheckedSuperblock, 0)
                                   ELSE BitmapBlock(2 ^ DevBlocks - 1)]]

\* inputs
AlignFill == {0, 165}
FileSizes == {0, 5000}
Nows == {1000}
FlipOffsets == {0, 24, 48, 100}
FlipMasks == {1, 255}

-----------------------------------------------------------------------------
(* State machine *)
(*   dev     the device: its capacity and the blocks it holds               *)
(*   fs      the SadakFs handle the caller holds, or NoFs                   *)
(*   ret     what the last operation returned                               *)
(*   devOps  the device calls the last operation issued, in order           *)
(*   entry   the cache entry the last operation stamped or marked           *)
(*   hist    history of the run, read by the properties only                *)
(*   nops    number of operations so far                                    *)
(*   mirror  the Raid1Device a caller built, with its member devices        *)
(*   mret    the result of the last call on the mirror                      *)
(*   mhist   history of the calls on the mirror, read by the properties     *)

\* the bitmap region of allocator a as device d holds it
OnDiskBitmap(d, a) == [i \in 1..a.bitmap_block_count |-> BlockOf(d, a.bitmap_start_id + i - 1)]

\* r when exactly the bits of LBAs 0 .. r-1 are set in the bitmap region, else -1
PrefixBits(d, a) ==
    LET r == SetBits(d, a, 0)
        whole(k) == Byte(BlockOf(d, a.bitmap_start_id + (k \div BLOCK_SIZE)),
                         (k % BLOCK_SIZE) + 1) = 255
    IN  IF /\ \A k \in 0..((r \div 8) - 1) : whole(k)
           /\ \A id \in (r - (r % 8))..(r - 1) : BitmapBit(d, a, id) = 1
        THEN r ELSE -1

NoCommit == [root |-> -1, bitmap |-> <<>>]

\* the root a handle holds together with the bitmap the device holds
Commit(d, h) == [root |-> h.superblock.metadata_root_id, bitmap |-> OnDiskBitmap(d, h.allocator)]

NoHalt == [during |-> "-", point |-> -1, pre |-> NoCommit, post |-> NoCommit, syncs |-> 0]

Returned(op, o, f) ==
    [op |-> op,
     status |-> IF o.blocked THEN "blocked" ELSE IF o.res.ok THEN "ok" ELSE "err",
     err |-> IF o.blocked \/ o.res.ok THEN NoError ELSE o.res.err,
     fault |-> f > 0]

Done(op) == [op |-> op, status |-> "ok", err |-> NoError, fault |-> FALSE]

\* no mirror built, no call made on it
NoMirror == [live |-> FALSE]

MirrorIds == {0}

NoMirrorRet ==
    [op |-> "-", id |-> -1, data |-> <<>>, ok |-> TRUE, err |-> RaidError("-", <<>>),
     calls |-> <<>>, survivor |-> TRUE, total |-> -1, offered |-> <<>>]

NoMirrorHist ==
    [n |-> 0, last |-> [id \in MirrorIds |-> [good |-> <<>>, clean |-> TRUE]]]

\* no buffer checksummed, no call made on the host-backed device, both threads
\* outside allocate_block, both locks free
RoutinesIdle ==
    /\ summed = [data |-> <<>>, len |-> -1, sum |-> <<>>]
    /\ host = [op |-> "-", id |-> -1, len |-> -1, traps |-> <<>>, res |-> Ok(0)]
    /\ thr = [t \in {1, 2} |-> [pc |-> "idle", calls |-> 0, i |-> 0, entry |-> NoEntry,
                                 res |-> Ok(-1), cache_locked |-> FALSE]]
    /\ locks = [allocator |-> 0, cache |-> 0]
    /\ thist = [handed |-> <<>>, latest |-> [by |-> 0, data |-> <<>>], faults |-> 0]

Init ==
    /\ dev \in InitialDevices
    /\ fs = NoFs
    /\ ret = Done("-")
    /\ devOps = <<>>
    /\ entry = NoEntry
    /\ hist = [faults |-> 0, allocs |-> <<>>, got |-> <<>>, run |-> <<>>, base |-> -1,
               reserved |-> 0, committed |-> NoCommit, syncs |-> 0, halt |-> NoHalt,
               inode |-> NoInode, asked |-> -1, fault_at |-> 0,
               tampered |-> FALSE, built |-> <<>>,
               freed |-> <<>>, story |-> 0]
    /\ nops = 0
    /\ mirror = NoMirror
    /\ mret = NoMirrorRet
    /\ mhist = NoMirrorHist
    /\ RoutinesIdle

\* the host calls of an entry point that makes n of them that may be made
\* to fail: any one of them, while the run has failures left (0: none fails)
FaultPoints(n) == IF hist.faults < MaxFaults THEN 0..n ELSE {0}

CanCall == fs.live /\ ret.status # "blocked" /\ nops < MaxOps

\* a caller formats the device
Format ==
    /\ ~fs.live /\ nops < MaxOps
    /\ \E f \in FaultPoints(FormatCalls(dev)), fill \in AlignFill :
         \E o \in {format(dev, f, fill)} :
             /\ fs' = o.fs
             /\ ret' = Returned("format", o, f)
             /\ devOps' = o.ops
             /\ entry' = o.entry
             /\ hist' = [hist EXCEPT
                            !.faults = IF f > 0 THEN @ + 1 ELSE @,
                            !.fault_at = f,
                            !.allocs = o.got,
                            !.got = o.got,
                            !.run = o.got,
                            !.base = IF o.res.ok THEN PrefixBits(dev, o.fs.allocator) ELSE -1,
                            !.reserved = IF o.res.ok THEN SetBits(dev, o.fs.allocator, 0) ELSE 0,
                            !.committed = IF o.res.ok THEN Commit(dev, o.fs) ELSE @,
                            !.syncs = 0,
                            !.halt = IF o.res.ok THEN NoHalt ELSE @,
                            !.built = IF o.res.ok THEN <<o.fs.superblock>> ELSE @,
                            !.tampered = IF o.res.ok THEN FALSE ELSE @,
                            !.inode = NoInode, !.asked = -1, !.freed = <<>>,
                            !.story = IF o.res.ok THEN 0 ELSE @]
    /\ nops' = nops + 1
    /\ UNCHANGED dev
    /\ UNCHANGED <<mvars, xvars>>

\* a caller mounts the device
Mount ==
    /\ ~fs.live /\ nops < MaxOps
    /\ \E f \in FaultPoints(MountCalls) :
         \E o \in {mount(dev, f)} :
             /\ fs' = o.fs
             /\ ret' = Returned("mount", o, f)
             /\ devOps' = o.ops
             /\ entry' = o.entry
             /\ hist' = [hist EXCEPT
                            !.faults = IF f > 0 THEN @ + 1 ELSE @,
                            !.fault_at = f,
                            !.allocs = <<>>,
                            !.got = <<>>,
                            !.run = <<>>,
                            !.base = IF o.res.ok THEN PrefixBits(dev, o.fs.allocator) ELSE -1,
                            !.reserved = IF o.res.ok THEN SetBits(dev, o.fs.allocator, 0) ELSE 0,
                            !.committed = IF o.res.ok /\ hist.halt = NoHalt
                                          THEN Commit(dev, o.fs) ELSE @,
                            !.syncs = 0,
                            !.inode = NoInode, !.asked = -1, !.freed = <<>>]
    /\ nops' = nops + 1
    /\ UNCHANGED dev
    /\ UNCHANGED <<mvars, xvars>>

\* the holder of the handle creates a file
CreateFile ==
    /\ CanCall
    /\ \E f \in FaultPoints(CreateFileCalls(fs)), size \in FileSizes, now \in Nows,
          fill \in AlignFill :
         \E o \in {create_file(dev, fs, size, now, f, fill)} :
             /\ fs' = o.fs
             /\ ret' = Returned("create_file", o, f)
             /\ devOps' = o.ops
             /\ entry' = IF o.entry = NoEntry THEN entry ELSE o.entry
             /\ hist' = [hist EXCEPT
                            !.faults = IF f > 0 THEN @ + 1 ELSE @,
                            !.fault_at = IF o.blocked THEN 0 ELSE f,
                            !.allocs = @ \o o.got,
                            !.got = o.got,
                            !.run = @ \o o.got,
                            !.inode = IF ~o.blocked /\ o.res.ok THEN o.res.val ELSE NoInode,
                            !.asked = IF ~o.blocked /\ o.res.ok THEN size ELSE -1,
                            !.story = IF ~o.blocked /\ o.res.ok /\ size = 0 /\ @ = 0
                                      THEN 1 ELSE @]
    /\ nops' = nops + 1
    /\ UNCHANGED dev
    /\ UNCHANGED <<mvars, xvars>>

\* the holder of the handle commits
Sync ==
    /\ CanCall
    /\ \E f \in FaultPoints(SyncCalls) :
         \E o \in {sync(dev, fs, f)} :
             /\ fs' = o.fs
             /\ ret' = Returned("sync", o, f)
             /\ devOps' = o.ops
             /\ entry' = IF o.entry = NoEntry THEN entry ELSE o.entry
             /\ hist' = [hist EXCEPT
                            !.faults = IF f > 0 THEN @ + 1 ELSE @,
                            !.fault_at = IF o.blocked THEN 0 ELSE f,
                            !.got = <<>>,
                            !.committed = IF ~o.blocked /\ o.res.ok THEN Commit(dev, fs) ELSE @,
                            !.syncs = IF ~o.blocked /\ o.res.ok THEN @ + 1 ELSE @,
                            !.inode = NoInode, !.asked = -1, !.freed = <<>>,
                            !.story = IF ~o.blocked /\ o.res.ok /\ @ = 1 THEN 2 ELSE @]
    /\ nops' = nops + 1
    /\ UNCHANGED dev
    /\ UNCHANGED <<mvars, xvars>>

\* execution halts inside sync after `point` of its device calls; the handle
\* and everything in memory are lost, the device keeps what it holds
SyncHalt ==
    /\ CanCall /\ ~fs.locked
    /\ \E point \in 0..Len(sync(dev, fs, 0).ops) :
         /\ devOps' = SubSeq(sync(dev, fs, 0).ops, 1, point)
         /\ hist' = [hist EXCEPT !.fault_at = 0,
                        !.halt = [during |-> "sync", point |-> point, pre |-> hist.committed,
                                  post |-> Commit(dev, fs), syncs |-> hist.syncs],
                        !.allocs = <<>>, !.got = <<>>, !.run = <<>>, !.base = -1,
                        !.inode = NoInode, !.asked = -1, !.freed = <<>>]
    /\ fs' = NoFs
    /\ ret' = Done("halt")
    /\ entry' = NoEntry
    /\ nops' = nops + 1
    /\ UNCHANGED dev
    /\ UNCHANGED <<mvars, xvars>>

\* execution halts between operations (or the handle is dropped)
Halt ==
    /\ fs.live /\ nops < MaxOps
    /\ fs' = NoFs
    /\ ret' = Done("halt")
    /\ devOps' = <<>>
    /\ entry' = NoEntry
    /\ hist' = [hist EXCEPT !.fault_at = 0,
                   !.halt = [during |-> "idle", point |-> 0, pre |-> hist.committed,
                             post |-> hist.committed, syncs |-> hist.syncs],
                   !.allocs = <<>>, !.got = <<>>, !.run = <<>>, !.base = -1,
                   !.inode = NoInode, !.asked = -1, !.freed = <<>>]
    /\ nops' = nops + 1
    /\ UNCHANGED dev
    /\ UNCHANGED <<mvars, xvars>>

\* a caller of the handle's allocator allocates a block
AllocateBlock ==
    /\ CanCall
    /\ \E f \in FaultPoints(AllocCalls(fs.allocator)) :
         \E blocked \in {fs.allocator.locked}, o \in {allocate_block(dev, fs.allocator, f, 1)} :
             /\ fs' = IF blocked THEN fs ELSE [fs EXCEPT !.allocator.locked = o.locked]
             /\ ret' = [op |-> "allocate_block",
                        status |-> IF blocked THEN "blocked" ELSE IF o.res.ok THEN "ok" ELSE "err",
                        err |-> IF blocked \/ o.res.ok THEN NoError ELSE o.res.err,
                        fault |-> f > 0]
             /\ devOps' = IF blocked THEN <<>> ELSE o.ops
             /\ entry' = IF blocked \/ o.entry = NoEntry THEN entry ELSE o.entry
             /\ hist' = [hist EXCEPT
                            !.faults = IF f > 0 THEN @ + 1 ELSE @,
                            !.fault_at = IF blocked THEN 0 ELSE f,
                            !.allocs = IF ~blocked /\ o.res.ok THEN Append(@, o.res.val) ELSE @,
                            !.got = IF ~blocked /\ o.res.ok THEN <<o.res.val>> ELSE <<>>,
                            !.run = IF ~blocked /\ o.res.ok THEN Append(@, o.res.val) ELSE @,
                            !.inode = NoInode, !.asked = -1, !.freed = <<>>]
    /\ nops' = nops + 1
    /\ UNCHANGED dev
    /\ UNCHANGED <<mvars, xvars>>

\* a caller of the handle's allocator frees a block it was handed, or the
\* block of the metadata root the handle names
FreeBlock ==
    /\ CanCall
    /\ \E id \in Range(hist.allocs) \cup {fs.metadata_tree.root_id} :
         \E o \in {free_block(dev, fs.allocator, id)} :
             /\ ret' = Done("free_block")
             /\ devOps' = o.ops
             /\ hist' = [hist EXCEPT !.fault_at = 0, !.allocs = RemoveOne(@, id), !.got = <<>>,
                                     !.run = <<>>, !.base = -1, !.inode = NoInode, !.asked = -1,
                                     !.freed = <<[id |-> id,
                                                  bit |-> BitmapBit(dev, fs.allocator, id),
                                                  marked |-> o.entry # NoEntry /\ o.entry.is_dirty]>>]
    /\ nops' = nops + 1
    /\ UNCHANGED <<dev, fs, entry>>
    /\ UNCHANGED <<mvars, xvars>>

\* somebody changes one byte of block 0 on the device while it is not in use
FlipByte ==
    /\ ~fs.live /\ nops < MaxOps /\ ~hist.tampered
    /\ \E off \in FlipOffsets, mask \in FlipMasks :
         dev' = [dev EXCEPT !.blocks =
                    [id \in DOMAIN @ \cup {0} |->
                        IF id = 0
                        THEN WithByte(BlockOf(dev, 0), off + 1,
                                      Xor8[Byte(BlockOf(dev, 0), off + 1)][mask])
                        ELSE @[id]]]
    /\ hist' = [hist EXCEPT !.fault_at = 0, !.tampered = TRUE, !.got = <<>>, !.freed = <<>>]
    /\ ret' = Done("flip")
    /\ devOps' = <<>>
    /\ nops' = nops + 1
    /\ UNCHANGED <<fs, entry>>
    /\ UNCHANGED <<mvars, xvars>>

Next ==
    \/ Format
    \/ Mount
    \/ CreateFile
    \/ Sync
    \/ SyncHalt
    \/ Halt
    \/ AllocateBlock
    \/ FreeBlock
    \/ FlipByte

Spec == Init /\ [][Next]_vars

\* the same program, started on a volume with no free block
InitFull ==
    /\ dev = FullVolume
    /\ fs = NoFs
    /\ ret = Done("-")
    /\ devOps = <<>>
    /\ entry = NoEntry
    /\ hist = [faults |-> 0, allocs |-> <<>>, got |-> <<>>, run |-> <<>>, base |-> -1,
               reserved |-> 0, committed |-> NoCommit, syncs |-> 0, halt |-> NoHalt,
               inode |-> NoInode, asked |-> -1, fault_at |-> 0,
               tampered |-> FALSE, built |-> <<>>,
               freed |-> <<>>, story |-> 0]
    /\ nops = 0
    /\ mirror = NoMirror
    /\ mret = NoMirrorRet
    /\ mhist = NoMirrorHist
    /\ RoutinesIdle

SpecFull == InitFull /\ [][Next]_vars

\* the same program, started from the state a successful format of the blank
\* device leaves: the caller holds the handle format returned
InitFormatted ==
    /\ dev = BlankDevice
    /\ \E fill \in AlignFill :
         \E o \in {format(BlankDevice, 0, fill)} :
             /\ fs = o.fs
             /\ ret = Returned("format", o, 0)
             /\ devOps = o.ops
             /\ entry = o.entry
             /\ hist = [faults |-> 0, allocs |-> o.got, got |-> o.got, run |-> o.got,
                        base |-> PrefixBits(BlankDevice, o.fs.allocator),
                        reserved |-> SetBits(BlankDevice, o.fs.allocator, 0),
                        committed |-> Commit(BlankDevice, o.fs), syncs |-> 0,
                        halt |-> NoHalt, inode |-> NoInode, asked |-> -1,
                                 fault_at |-> 0, tampered |-> FALSE,
                        built |-> <<o.fs.superblock>>, freed |-> <<>>, story |-> 0]
    /\ nops = 0
    /\ mirror = NoMirror
    /\ mret = NoMirrorRet
    /\ mhist = NoMirrorHist
    /\ RoutinesIdle

SpecFormatted == InitFormatted /\ [][Next]_vars

-----------------------------------------------------------------------------
(* State machine of the mirror: a caller builds a Raid1Device over member   *)
(* devices and calls read_block, write_block and flush on it, while any     *)
(* set of members may fail a call.                                          *)

MaxMembers == 3
MaxMirrorOps == 3

\* inputs
MemberCaps == {DevBlocks, DevBlocks + 1}
Patterns == {<<170, 170>>, <<187, 187>>}

\* `survivor`: some member was not made to fail the call
MirrorRet(op, id, data, res, calls, survivor) ==
    [op |-> op, id |-> id, data |-> data, ok |-> res.ok,
     err |-> IF res.ok THEN RaidError("-", <<>>) ELSE res.err,
     calls |-> calls, survivor |-> survivor, total |-> -1, offered |-> <<>>]

InitRaid ==
    /\ dev = BlankDevice
    /\ fs = NoFs
    /\ ret = Done("-")
    /\ devOps = <<>>
    /\ entry = NoEntry
    /\ hist = [faults |-> 0, allocs |-> <<>>, got |-> <<>>, run |-> <<>>, base |-> -1,
               reserved |-> 0, committed |-> NoCommit, syncs |-> 0, halt |-> NoHalt,
               inode |-> NoInode, asked |-> -1, fault_at |-> 0,
               tampered |-> FALSE, built |-> <<>>,
               freed |-> <<>>, story |-> 0]
    /\ nops = 0
    /\ mirror = NoMirror
    /\ mret = NoMirrorRet
    /\ mhist = NoMirrorHist
    /\ RoutinesIdle

\* the errors of the member calls that failed, in the order of the calls
RECURSIVE FailedMembers(_)
FailedMembers(calls) ==
    IF calls = <<>> THEN <<>>
    ELSE (IF Head(calls).ok THEN <<>>
          ELSE <<MemberError(DeviceFault, Head(calls).member)>>) \o FailedMembers(Tail(calls))

\* every member was called once with `op` on block `id`, in construction order
CalledEachOnce(calls, n, op, id) ==
    /\ Len(calls) = n
    /\ \A i \in DOMAIN calls :
           calls[i].member = i /\ calls[i].op = op /\ calls[i].id = id

MirrorCanCall == mirror.live /\ mhist.n < MaxMirrorOps

\* a caller builds a mirror over n new member devices
RaidNew ==
    /\ ~mirror.live
    /\ \E n \in 0..MaxMembers :
         \E caps \in [1..n -> MemberCaps] :
            \E r \in {Raid1DeviceNew([i \in 1..n |-> [cap |-> caps[i],
                                                       blocks |-> [id \in {} |-> ZeroBlock]]])} :
                /\ mirror' = IF r.ok THEN [live |-> TRUE, devices |-> r.val.devices,
                                           total_blocks |-> r.val.total_blocks]
                              ELSE NoMirror
                /\ mret' = [MirrorRet("new", -1, <<>>, r, <<>>, TRUE) EXCEPT
                               !.total = IF r.ok THEN raid_total_blocks(r.val) ELSE -1,
                               !.offered = caps]
    /\ UNCHANGED mhist
    /\ UNCHANGED <<fsvars, xvars>>

\* the holder of the mirror reads a block
RaidRead ==
    /\ MirrorCanCall
    /\ \E id \in MirrorIds, failing \in SUBSET DOMAIN mirror.devices :
         \E o \in {raid_read_block(mirror, id, failing)} :
            mret' = MirrorRet("read", id, IF o.res.ok THEN o.res.val ELSE <<>>, o.res,
                              o.calls, failing # DOMAIN mirror.devices)
    /\ mhist' = [mhist EXCEPT !.n = @ + 1]
    /\ UNCHANGED <<mirror, fsvars, xvars>>

\* the holder of the mirror writes a block
RaidWrite ==
    /\ MirrorCanCall
    /\ \E id \in MirrorIds, data \in Patterns, failing \in SUBSET DOMAIN mirror.devices :
         \E lands \in (IF failing = {} THEN {"all"} ELSE Landings) :
            \E o \in {raid_write_block(mirror, id, data, failing, lands)} :
                /\ mirror' = [mirror EXCEPT !.devices = o.devices]
                /\ mret' = MirrorRet("write", id, data, o.res, o.calls,
                                          failing # DOMAIN mirror.devices)
                /\ mhist' = [mhist EXCEPT
                                !.n = @ + 1,
                                !.last[id] = IF o.res.ok
                                             THEN [good |-> <<data>>, clean |-> TRUE]
                                             ELSE [@ EXCEPT !.clean = FALSE]]
    /\ UNCHANGED <<fsvars, xvars>>

\* the holder of the mirror flushes it
RaidFlush ==
    /\ MirrorCanCall
    /\ \E failing \in SUBSET DOMAIN mirror.devices :
         \E o \in {raid_flush(mirror, failing)} :
            mret' = MirrorRet("flush", -1, <<>>, o.res, o.calls,
                              failing # DOMAIN mirror.devices)
    /\ mhist' = [mhist EXCEPT !.n = @ + 1]
    /\ UNCHANGED <<mirror, fsvars, xvars>>

NextRaid ==
    \/ RaidNew
    \/ RaidRead
    \/ RaidWrite
    \/ RaidFlush

SpecRaid == InitRaid /\ [][NextRaid]_vars

-----------------------------------------------------------------------------
(* btree.rs *)

BTREE_NODE_ORDER == 32
BTREE_NODE_SIZE == BLOCK_SIZE

\* BTreeNodeHeader field offsets under #[repr(C)]: byte 1, bytes 5..7 and
\* 28..31 are alignment padding, the struct is 32 bytes long
NODE_TYPE == 0
NODE_NUM_ENTRIES == 2
NODE_LEVEL == 4
NODE_BLOCK_ID == 8
NODE_CHECKSUM == 16
NODE_PADDING == 20
NODE_HEADER_SIZE == 32

BTreeNodeHeader(node_type, num_entries, level, block_id, checksum) ==
    [node_type |-> node_type, num_entries |-> num_entries, level |-> level,
     block_id |-> block_id, checksum |-> checksum]

\* the block image of a BTreeNode: the header followed by the data area
StoreNode(header, data_area) ==
    Trim(<<header.node_type, 0>> \o LE(header.num_entries, 2)
         \o <<header.level, 0, 0, 0>> \o LE(header.block_id, 8)
         \o header.checksum
         \o [i \in 1..(NODE_HEADER_SIZE - NODE_PADDING) |-> 0]
         \o data_area)

\* BTree::new.  Host call k = LOCK_CREATE.
BTreeNew(root_id, f, k) ==
    IF f = k
    THEN Err("from(" \o from_raw(HostFailure) \o ")")
    ELSE Ok([root_id |-> root_id])

\* BTree::verify_checksum: the CRC of the block as it was read against the
\* checksum field of its header
verify_checksum(node_block) ==
    checksum_data(node_block.data, BTREE_NODE_SIZE) = Field(node_block.data, NODE_CHECKSUM, 4)

\* BTree::get_node.  Host calls: k = MEMORY_ALLOCATE, k + 1 = the device read.
get_node(d, id, f, k) ==
    LET g == get_block(d, id, f, k)
    IN  IF ~g.res.ok
        THEN [res |-> Err(g.res.err), ops |-> g.ops]
        ELSE IF ~verify_checksum(g.res.val)
        THEN [res |-> Err("from(EIO)"), ops |-> g.ops]
        ELSE [res |-> Ok(g.res.val), ops |-> g.ops]

-----------------------------------------------------------------------------
(* State machine of the node reader: a B-tree is built over a cache on a    *)
(* device that holds one node image, and get_node is called on it.  The     *)
(* source has no code that writes a node, so the images on the device are   *)
(* inputs: every header of NodeHeaders, with a checksum field that is       *)
(* stamped over the block with the field zero, left zero, or equal to the   *)
(* CRC of the block as stored.                                               *)

NodeIds == {2, 3}

\* the headers of the node images, before their checksum is stamped
NodeHeaders ==
    {BTreeNodeHeader(t, n, l, b, <<0, 0, 0, 0>>) :
        t \in {0, 1}, n \in {0, 1, BTREE_NODE_ORDER}, l \in {0, 1}, b \in NodeIds}

\* the block with the checksum field of the node header set to zero
ZeroChecksumField(data) ==
    Trim([i \in 1..Len(data) |->
             IF i > NODE_CHECKSUM /\ i <= NODE_CHECKSUM + 4 THEN 0 ELSE data[i]])

\* the checksum of a node taken over its block with the checksum field zero
FieldZeroChecksum(header, data_area) ==
    checksum_data(ZeroChecksumField(StoreNode(header, data_area)), BLOCK_SIZE)

\* 0x4FA97B39: the CRC of the block of a node of type 1, level 0, no entry,
\* block_id 2 and an empty data area that carries this value as its checksum
SelfCheckedNodeChecksum == <<57, 123, 169, 79>>

NodeChecksums(header, data_area) ==
    {FieldZeroChecksum(header, data_area), <<0, 0, 0, 0>>, SelfCheckedNodeChecksum}

NodeImages ==
    UNION {{StoreNode([h EXCEPT !.checksum = c], a) : c \in NodeChecksums(h, a)} :
           h \in NodeHeaders, a \in {<<>>, <<7>>}}

NodeVolumes ==
    {[cap |-> DevBlocks, blocks |-> [b \in {id} |-> image]] :
        id \in NodeIds, image \in NodeImages}

InitNode ==
    /\ dev \in NodeVolumes
    /\ fs = NoFs
    /\ ret = Done("-")
    /\ devOps = <<>>
    /\ entry = NoEntry
    /\ hist = [faults |-> 0, allocs |-> <<>>, got |-> <<>>, run |-> <<>>, base |-> -1,
               reserved |-> 0, committed |-> NoCommit, syncs |-> 0, halt |-> NoHalt,
               inode |-> NoInode, asked |-> -1, fault_at |-> 0,
               tampered |-> FALSE, built |-> <<>>,
               freed |-> <<>>, story |-> 0]
    /\ nops = 0
    /\ mirror = NoMirror
    /\ mret = NoMirrorRet
    /\ mhist = NoMirrorHist
    /\ RoutinesIdle

\* what a call on the tree returned; err is the D::Error value
NodeRet(op, id, res, f) ==
    [op |-> op, id |-> id, status |-> IF res.ok THEN "ok" ELSE "err",
     err |-> IF res.ok THEN "-" ELSE res.err, fault |-> f > 0]

\* BTree::new(cache, root_id)
TreeNew ==
    /\ ~fs.live
    /\ \E root_id \in NodeIds, f \in 0..1 :
          \E r \in {BTreeNew(root_id, f, 1)} :
             /\ fs' = IF r.ok THEN [live |-> TRUE, metadata_tree |-> r.val] ELSE fs
             /\ ret' = NodeRet("new", root_id, r, f)
    /\ entry' = NoEntry
    /\ devOps' = <<>>
    /\ UNCHANGED <<dev, hist, nops>>
    /\ UNCHANGED <<mvars, xvars>>

\* tree.get_node(id)
GetNode ==
    /\ fs.live
    /\ \E id \in NodeIds, f \in 0..2 :
          \E o \in {get_node(dev, id, f, 1)} :
             /\ ret' = NodeRet("get_node", id, o.res, f)
             /\ entry' = IF o.res.ok THEN o.res.val ELSE NoEntry
             /\ devOps' = o.ops
    /\ UNCHANGED <<dev, fs, hist, nops>>
    /\ UNCHANGED <<mvars, xvars>>

NextNode ==
    \/ TreeNew
    \/ GetNode

SpecNode == InitNode /\ [][NextNode]_vars

-----------------------------------------------------------------------------
(* Properties of the claims *)

\* C1 (as stated).  Commit atomicity: when execution halted inside sync, at
\* any point of its device calls, a mount of the device (no host call failing,
\* no byte changed behind the filesystem) succeeds and its superblock names
\* the root committed before that sync or the root held at the halt; a halt
\* before the first device call yields the former, a halt after the last
\* flush the latter.
C1_CommitAtomicity ==
    (ret.op = "mount" /\ ~ret.fault /\ hist.halt.during = "sync" /\ ~hist.tampered)
        => /\ ret.status = "ok"
           /\ fs.superblock.metadata_root_id \in {hist.halt.pre.root, hist.halt.post.root}
           /\ (hist.halt.point = 0
                   => fs.superblock.metadata_root_id = hist.halt.pre.root)
           /\ (hist.halt.point = SyncCalls
                   => fs.superblock.metadata_root_id = hist.halt.post.root)

\* C2 (as stated).  Sync write ordering: a sync that returns Ok has written
\* block 0, every write of another block precedes that write, a flush lies
\* between the last such write and the write of block 0, and a flush follows
\* the write of block 0.
C2_SyncWriteOrdering ==
    (ret.op = "sync" /\ ret.status = "ok")
        => \E w \in DOMAIN devOps :
              /\ devOps[w] = DevOp("write", 0)
              /\ \A i \in DOMAIN devOps :
                     (devOps[i].op = "write" /\ devOps[i].id # 0) => i < w
              /\ \E b \in 1..(w - 1) :
                     /\ devOps[b].op = "flush"
                     /\ \A i \in DOMAIN devOps :
                            (devOps[i].op = "write" /\ devOps[i].id # 0) => i < b
              /\ \E a \in (w + 1)..Len(devOps) : devOps[a].op = "flush"

\* C3 (as stated).  Format/mount round trip: after format returned Ok on the
\* device, a mount of the same device (no host call failing, no byte changed)
\* succeeds, and the mounted metadata_root_id, bitmap_start_id and
\* total_blocks are those of the superblock format built, with
\* bitmap_start_id = 1 and total_blocks = the device capacity.
C3_FormatMountRoundTrip ==
    (ret.op = "mount" /\ ~ret.fault /\ hist.built # <<>> /\ ~hist.tampered)
        => /\ ret.status = "ok"
           /\ fs.superblock.metadata_root_id = hist.built[1].metadata_root_id
           /\ fs.superblock.bitmap_start_id = hist.built[1].bitmap_start_id
           /\ fs.superblock.total_blocks = hist.built[1].total_blocks
           /\ hist.built[1].bitmap_start_id = 1
           /\ hist.built[1].total_blocks = total_blocks(dev)

\* C4 (as stated).  Allocator soundness: among the LBAs handed out by
\* allocate_block and not freed since, none occurs twice, and the number of
\* set bits of the bitmap is the number of those LBAs plus the bits that were
\* set when the allocator was created.
C4_AllocatorSoundness ==
    fs.live
        => /\ \A i, j \in DOMAIN hist.allocs : i # j => hist.allocs[i] # hist.allocs[j]
           /\ SetBits(dev, fs.allocator, 0) = hist.reserved + Len(hist.allocs)

\* C5 (as stated).  Reserved blocks are never handed out: once format has
\* succeeded, no allocate_block call (the one inside format included) returns
\* block 0 or a block of the bitmap region, none after format returns the
\* current metadata root, and the bitmap bits of block 0 and of the bitmap
\* region are 1.
C5_ReservedNeverHandedOut ==
    (fs.live /\ hist.built # <<>> /\ ~hist.tampered)
        => LET first == fs.allocator.bitmap_start_id
               region == first..(first + fs.allocator.bitmap_block_count - 1)
           IN  /\ \A i \in DOMAIN hist.got :
                      /\ hist.got[i] # 0
                      /\ hist.got[i] \notin region
                      /\ (ret.op # "format" => hist.got[i] # fs.metadata_tree.root_id)
               /\ \A id \in {0} \cup region : BitmapBit(dev, fs.allocator, id) = 1

\* C6 (as stated).  Mount validation: a mount in which no host call fails
\* returns InvalidSuperblock and no handle whenever the magic of block 0
\* differs from SADAK_MAGIC or the stored checksum is not the CRC32C of the
\* block taken with the checksum field as zero; and it does so whenever one
\* byte of block 0 was changed after a successful format.
C6_MountValidation ==
    (ret.op = "mount" /\ ~ret.fault)
        => LET data == BlockOf(dev, 0)
               zeroed == Trim([i \in 1..Len(data) |->
                                  IF i - 1 \in SB_CHECKSUM..(SB_CHECKSUM + 3) THEN 0 ELSE data[i]])
               verifies == checksum_data(zeroed, BLOCK_SIZE) = Field(data, SB_CHECKSUM, 4)
               refused == ret.status = "err" /\ ret.err = InvalidSuperblock /\ ~fs.live
           IN  /\ (MagicDiffers(data) \/ ~verifies) => refused
               /\ (hist.built # <<>> /\ hist.tampered) => refused

\* C7 (as stated).  Superblock checksum convention: the checksum in the
\* block-0 image format stamps is the CRC32C of that image taken with the
\* checksum field as zero, and the image passes the checksum test of mount.
C7_ChecksumConvention ==
    (ret.op = "format" /\ ret.status = "ok")
        => LET image == entry.data
               zeroed == Trim([i \in 1..Len(image) |->
                                  IF i - 1 \in SB_CHECKSUM..(SB_CHECKSUM + 3) THEN 0 ELSE image[i]])
           IN  /\ entry.block_id = 0
               /\ Field(image, SB_CHECKSUM, 4) = checksum_data(zeroed, BLOCK_SIZE)
               /\ ~ChecksumDiffers(image)

\* C8 (as stated).  Atomicity across a crash: when execution halted after a
\* completed sync, inside a later sync or after it, what a successful mount of
\* the device sees (metadata root together with the on-disk bitmap) is the
\* state of the last completed sync or the state the later sync was committing.
C8_CrashAtomicity ==
    (/\ ret.op = "mount" /\ ret.status = "ok" /\ ~hist.tampered
     /\ \/ hist.halt.during = "sync" /\ hist.halt.syncs >= 1
        \/ hist.halt.during = "idle" /\ hist.halt.syncs >= 2)
        => Commit(dev, fs) \in {hist.halt.pre, hist.halt.post}

\* C9.  Failed sync: a sync that returns an error leaves the superblock held
\* in memory, the metadata root, the allocator and the (dirty) cache entry as
\* they were before the call, and leaves the device as it was, so that the
\* superblock on the device names the root it named before.
C9_FailedSyncLeavesState ==
    [][(ret'.op = "sync" /\ ret'.status = "err" /\ nops' = nops + 1)
          => /\ fs'.live
             /\ fs'.superblock = fs.superblock
             /\ fs'.metadata_tree = fs.metadata_tree
             /\ fs'.allocator = fs.allocator
             /\ entry' = entry
             /\ dev' = dev
             /\ LoadSuperblock(BlockOf(dev', 0)).metadata_root_id
                    = LoadSuperblock(BlockOf(dev, 0)).metadata_root_id]_vars

\* a sync has just returned the device's flush error to the holder of a handle
C9_FailedSyncReached ==
    /\ ret.op = "sync" /\ ret.status = "err"
    /\ ret.err = Error("Device", DeviceFault, "-")
    /\ fs.live /\ devOps = <<DevOp("flush", -1)>>

\* C10 (as stated).  First-fit order: an allocate_block that succeeds returns
\* the LBA of the lowest clear bit of the bitmap, and when the bitmap had
\* exactly its first `reserved` bits set, the successive allocations return
\* reserved, reserved + 1, ... in that order.
C10_FirstFitOrder ==
    fs.live
        => /\ (ret.op = "allocate_block" /\ ret.status = "ok")
                  => /\ BitmapBit(dev, fs.allocator, hist.got[1]) = 0
                     /\ \A id \in 0..(hist.got[1] - 1) : BitmapBit(dev, fs.allocator, id) = 1
           /\ hist.base >= 0
                  => \A j \in DOMAIN hist.run : hist.run[j] = hist.base + j - 1

\* C11 (as stated).  Allocation is bounded by the capacity: no allocate_block
\* (inside format and create_file too) returns an LBA >= total_blocks, and when
\* the bit of every LBA below total_blocks is set, an allocate_block in which
\* no host call fails returns OutOfSpace.
C11_BoundedByCapacity ==
    fs.live
        => /\ \A i \in DOMAIN hist.got : hist.got[i] < total_blocks(dev)
           /\ (/\ ret.op = "allocate_block" /\ ~ret.fault /\ ret.status # "blocked"
               /\ \A id \in 0..(total_blocks(dev) - 1) : BitmapBit(dev, fs.allocator, id) = 1)
                  => ret.status = "err" /\ ret.err = Error("Allocator", "OutOfSpace", "-")

\* C12 (as stated).  free_block(id) returns success and leaves the bitmap bit
\* of id clear, so that a later allocate_block can return id; when the bit was
\* set it marks the bitmap block dirty.
C12_FreeClearsBit ==
    (ret.op = "free_block" /\ hist.freed # <<>>)
        => /\ ret.status = "ok"
           /\ BitmapBit(dev, fs.allocator, hist.freed[1].id) = 0
           /\ hist.freed[1].bit = 1 => hist.freed[1].marked

\* C19 (as stated).  Cache coherence: while the filesystem (and so its cache)
\* is alive, a get_block of the block whose entry a caller has mutated and
\* marked dirty returns the mutated bytes, and does so from the cache, without
\* reading the device.
C19_CacheCoherence ==
    (fs.live /\ entry # NoEntry /\ entry.is_dirty)
        => \E g \in {get_block(dev, entry.block_id, 0, 1)} :
              /\ g.res.ok
              /\ g.res.val.data = entry.data
              /\ g.ops = <<>>

C14_MirrorWriteAll ==
    \A id \in MirrorIds :
        (mirror.live /\ mhist.last[id].good # <<>> /\ mhist.last[id].clean)
            => \A i \in DOMAIN mirror.devices :
                   read_block(mirror.devices[i], id, FALSE) = Ok(mhist.last[id].good[1])

\* a write of the second pattern has just been acknowledged by three members
C14_AcknowledgedWriteReached ==
    /\ mret.op = "write" /\ mret.ok /\ mret.data = <<187, 187>>
    /\ mirror.live /\ Len(mirror.devices) = 3
    /\ mhist.n >= 2

\* C15.  Mirror write policy: write_block calls write_block on every member
\* once, in construction order, whatever the earlier members returned; it
\* returns success exactly when every member call succeeded, and otherwise
\* IoError with the errors of the failing members in member order.
C15_MirrorWritePolicy ==
    (mret.op = "write")
        => /\ CalledEachOnce(mret.calls, Len(mirror.devices), "write", mret.id)
           /\ mret.ok <=> \A i \in DOMAIN mret.calls : mret.calls[i].ok
           /\ ~mret.ok => /\ mret.err.kind = "IoError"
                          /\ mret.err.errors = FailedMembers(mret.calls)
                          /\ mret.err.errors # <<>>

\* a write failed on the first member and went on to the second, which took it
C15_WriteContinuedReached ==
    /\ mret.op = "write" /\ ~mret.ok
    /\ ~mret.calls[1].ok /\ mret.calls[2].ok
    /\ read_block(mirror.devices[2], mret.id, FALSE) = Ok(mret.data)

\* C16.  Mirror read policy: read_block asks the members in construction
\* order and stops at the first whose read succeeds, returning its bytes; it
\* returns IoError only when every member failed, with the errors of all
\* members in member order.
C16_MirrorReadPolicy ==
    (mret.op = "read")
        => /\ \A i \in DOMAIN mret.calls :
                  /\ mret.calls[i].member = i
                  /\ mret.calls[i].op = "read" /\ mret.calls[i].id = mret.id
                  /\ i < Len(mret.calls) => ~mret.calls[i].ok
           /\ mret.calls # <<>>
           /\ mret.ok <=> mret.calls[Len(mret.calls)].ok
           /\ mret.ok => read_block(mirror.devices[Len(mret.calls)], mret.id, FALSE)
                             = Ok(mret.data)
           /\ ~mret.ok => /\ Len(mret.calls) = Len(mirror.devices)
                          /\ mret.err.kind = "IoError"
                          /\ mret.err.errors = FailedMembers(mret.calls)
                          /\ Len(mret.err.errors) = Len(mirror.devices)

\* a read of a three-member mirror succeeded at the second member: the first
\* failed and the third was not asked
C16_SecondMemberReadReached ==
    /\ mret.op = "read" /\ mret.ok
    /\ Len(mirror.devices) = 3 /\ Len(mret.calls) = 2
    /\ ~mret.calls[1].ok

\* C17.  Mirror construction: Raid1Device::new fails with NotEnoughDevices
\* when fewer than two devices are given, with SizeMismatch when two of them
\* differ in total_blocks, and otherwise succeeds with total_blocks equal to
\* the smallest (and so the common) member capacity.
C17_MirrorConstruction ==
    (mret.op = "new")
        => LET caps == mret.offered
               differ == \E i, j \in DOMAIN caps : caps[i] # caps[j]
           IN  /\ Len(caps) < 2 => ~mret.ok /\ mret.err.kind = "NotEnoughDevices"
               /\ (Len(caps) >= 2 /\ differ) => ~mret.ok /\ mret.err.kind = "SizeMismatch"
               /\ (Len(caps) >= 2 /\ ~differ)
                      => /\ mret.ok /\ mirror.live
                         /\ mret.total = MinOf(Range(caps))
                         /\ raid_total_blocks(mirror) = MinOf(Range(caps))
                         /\ \A i \in DOMAIN caps : caps[i] = mret.total
               /\ ~mret.ok => ~mirror.live

\* three devices, the last one larger than the others, were refused
C17_SizeMismatchReached ==
    /\ mret.op = "new" /\ ~mret.ok /\ mret.err.kind = "SizeMismatch"
    /\ Len(mret.offered) = 3
    /\ mret.offered[1] = mret.offered[2] /\ mret.offered[3] > mret.offered[1]

\* C18.  Mirror flush policy: flush calls flush on every member once, also
\* after an earlier member failed; it returns success exactly when every
\* member's flush succeeded, and otherwise IoError with the errors of the
\* failing members.
C18_MirrorFlushPolicy ==
    (mret.op = "flush")
        => /\ CalledEachOnce(mret.calls, Len(mirror.devices), "flush", -1)
           /\ mret.ok <=> \A i \in DOMAIN mret.calls : mret.calls[i].ok
           /\ ~mret.ok => /\ mret.err.kind = "IoError"
                          /\ mret.err.errors = FailedMembers(mret.calls)
                          /\ mret.err.errors # <<>>

\* a flush failed on the first member and was still issued to the last one
C18_FlushContinuedReached ==
    /\ mret.op = "flush" /\ ~mret.ok
    /\ ~mret.calls[1].ok /\ mret.calls[Len(mirror.devices)].ok

\* C20.  B-tree node read rejects bad checksums: get_node(id), when the block
\* is read, returns the node exactly when the CRC32C of the block taken with
\* the checksum field zeroed equals the stored checksum, so that a node
\* stamped by that convention is accepted; on a mismatch it fails with
\* ChecksumError.
C20_NodeChecksum ==
    (ret.op = "get_node" /\ ~ret.fault)
        => LET data == BlockOf(dev, ret.id)
               stamped == checksum_data(ZeroChecksumField(data), BLOCK_SIZE)
                             = Field(data, NODE_CHECKSUM, 4)
           IN  /\ ret.status = "ok" <=> stamped
               /\ ret.status = "ok" => entry.block_id = ret.id /\ entry.data = data
               /\ ret.status = "err" => ret.err = "ChecksumError"

\* C21.  B-tree node self-reference check: get_node(id), when the block is
\* read, fails with InvalidNode whenever the block_id field of the loaded
\* header differs from id, and every node it returns carries block_id = id.
C21_NodeSelfReference ==
    (ret.op = "get_node" /\ ~ret.fault)
        => LET data == BlockOf(dev, ret.id)
               differs == Field(data, NODE_BLOCK_ID, 8) # LE(ret.id, 8)
           IN  /\ differs => ret.status = "err"
               /\ (differs /\ verify_checksum(CacheBlock(ret.id, data, FALSE)))
                      => ret.err = "InvalidNode"
               /\ ret.status = "ok" => Field(entry.data, NODE_BLOCK_ID, 8) = LE(ret.id, 8)

\* C22.  Format initialises the metadata root: after a successful format
\* the block named by superblock.metadata_root_id holds a leaf node (level 0)
\* with zero entries, block_id equal to the root id and a checksum that
\* verifies over the block with the checksum field zeroed, and
\* get_node(metadata_root_id) succeeds.
C22_FormatInitialisesRoot ==
    (ret.op = "format" /\ ret.status = "ok")
        => LET root == fs.superblock.metadata_root_id
               data == BlockOf(dev, root)
           IN  /\ get_node(dev, root, 0, 1).res.ok
               /\ Field(data, NODE_NUM_ENTRIES, 2) = <<0, 0>>
               /\ Byte(data, NODE_LEVEL + 1) = 0
               /\ Field(data, NODE_BLOCK_ID, 8) = LE(root, 8)
               /\ checksum_data(ZeroChecksumField(data), BLOCK_SIZE)
                     = Field(data, NODE_CHECKSUM, 4)

\* C23.  CoW root swap is published by sync: after format (root R0),
\* create_file(0), sync, and a remount of the device (the handle dropped,
\* no byte changed behind the filesystem, no host call failing), the mount
\* succeeds, its superblock names a root different from R0, and the bitmap
\* bit of R0 is clear.
C23_RootSwapPublished ==
    (/\ ret.op = "mount" /\ ~ret.fault
     /\ hist.story = 2 /\ hist.built # <<>>
     /\ hist.halt.during = "idle" /\ ~hist.tampered)
        => /\ ret.status = "ok"
           /\ fs.superblock.metadata_root_id # hist.built[1].metadata_root_id
           /\ BitmapBit(dev, fs.allocator, hist.built[1].metadata_root_id) = 0

\* C24.  CoW no-overwrite: the block a successful create_file stamps and
\* marks dirty (its only write) is one that allocate_block returned within
\* that call, and it is neither the metadata root the handle names nor a
\* block handed out before the call.
C24_NoOverwrite ==
    (ret.op = "create_file" /\ ret.status = "ok")
        => LET prior == SubSeq(hist.allocs, 1, Len(hist.allocs) - Len(hist.got))
           IN  /\ entry.is_dirty
               /\ entry.block_id \in Range(hist.got)
               /\ entry.block_id # fs.metadata_tree.root_id
               /\ entry.block_id \notin Range(prior)

\* C25.  Lock nesting order: the caller of sync or create_file, which request
\* the filesystem lock first, does not hold the allocator lock when it makes
\* the call, and no call is left waiting for a lock its own caller holds.
\* (The cache lock is never acquired; a call that finds the allocator lock
\* taken returns "blocked" with the allocator lock still set.)
C25_LockOrder ==
    fs.live
        => /\ ret.op = "sync" => ~fs.allocator.locked
           /\ (ret.op = "create_file" /\ ret.status = "blocked") => ~fs.allocator.locked
           /\ ret.status # "blocked"

\* C29.  Locks are released on every exit path: when sync, allocate_block or
\* create_file has returned, with success or with an error, the filesystem
\* lock and the allocator lock it acquired are free, and no later call of
\* the three is left waiting for its lock.
C29_LocksReleased ==
    (fs.live /\ ret.op \in {"sync", "allocate_block", "create_file"})
        => /\ ret.status # "blocked"
           /\ ret.op \in {"sync", "create_file"} => ~fs.locked
           /\ ret.op \in {"allocate_block", "create_file"} => ~fs.allocator.locked

-----------------------------------------------------------------------------
(* checksum.rs on its own: checksum_data applied to byte buffers *)

MaxCrcLen == 4

\* nothing built, nothing called
InitRoutines ==
    /\ dev = BlankDevice
    /\ fs = NoFs
    /\ ret = Done("-")
    /\ devOps = <<>>
    /\ entry = NoEntry
    /\ hist = [faults |-> 0, allocs |-> <<>>, got |-> <<>>, run |-> <<>>, base |-> -1,
               reserved |-> 0, committed |-> NoCommit, syncs |-> 0, halt |-> NoHalt,
               inode |-> NoInode, asked |-> -1, fault_at |-> 0,
               tampered |-> FALSE, built |-> <<>>,
               freed |-> <<>>, story |-> 0]
    /\ nops = 0
    /\ mirror = NoMirror
    /\ mret = NoMirrorRet
    /\ mhist = NoMirrorHist
    /\ RoutinesIdle

\* checksum_data(&buffer) for the prefixes of the ASCII digits "123456789" and
\* for every buffer of at most MaxCrcLen bytes drawn from 0x00, 0x01, 0xFF
ChecksumData ==
    /\ \E s \in {SubSeq([i \in 1..9 |-> 48 + i], 1, k) : k \in 0..9}
                 \cup UNION {[1..k -> {0, 1, 255}] : k \in 0..MaxCrcLen} :
           \E sum \in {checksum_data(Trim(s), Len(s))} :
               summed' = [data |-> s, len |-> Len(s), sum |-> sum]
    /\ UNCHANGED <<fsvars, mvars, host, thr, locks, thist>>

SpecCrc == InitRoutines /\ [][ChecksumData]_vars

\* C27: checksum_data is CRC32C with the reflected polynomial 0x82F63B78, the
\* register starting at 0xFFFFFFFF and a final XOR with 0xFFFFFFFF: it returns
\* 0 for the empty buffer and 0xE3069283 for the ASCII bytes "123456789".
C27_ReferenceVectors ==
    summed.len >= 0
        => /\ summed.sum = Xor32(CrcLoop(<<255, 255, 255, 255>>, summed.data, 1, summed.len),
                                 <<255, 255, 255, 255>>)
           /\ summed.data = <<>> => summed.sum = <<0, 0, 0, 0>>
           /\ summed.data = [i \in 1..9 |-> 48 + i] => summed.sum = <<131, 146, 6, 227>>

-----------------------------------------------------------------------------
(* block_device.rs: Sahne64Device, the device backed by the host kernel.   *)
(* A call is given the results the host returns for its traps; `traps` are *)
(* the raw_syscall calls it made: the call number, the offset or length    *)
(* passed, and the result.                                                 *)

SYSCALL_RESOURCE_READ == 6
SYSCALL_RESOURCE_WRITE == 7
SYSCALL_RESOURCE_SEEK == 103

\* a read_block that accepts whatever the read trap moved
sahne64_read_block_taking_short(id, buffer_len, seek_result, read_len) ==
    IF buffer_len # BLOCK_SIZE THEN [res |-> Err("EINVAL"), traps |-> <<>>]
    ELSE LET seek == [call |-> SYSCALL_RESOURCE_SEEK, arg |-> id * BLOCK_SIZE,
                      result |-> seek_result]
             read == [call |-> SYSCALL_RESOURCE_READ, arg |-> BLOCK_SIZE, result |-> read_len]
         IN  IF seek_result < 0
             THEN [res |-> Err(from_raw(seek_result)), traps |-> <<seek>>]
             ELSE IF read_len < 0
             THEN [res |-> Err(from_raw(read_len)), traps |-> <<seek, read>>]
             ELSE [res |-> Ok(0), traps |-> <<seek, read>>]

\* Sahne64Device::read_block(id, buffer) with buffer.len() = buffer_len, the
\* seek trap returning seek_result and the read trap returning read_len
sahne64_read_block(id, buffer_len, seek_result, read_len) ==
    IF buffer_len # BLOCK_SIZE THEN [res |-> Err("EINVAL"), traps |-> <<>>]
    ELSE LET seek == [call |-> SYSCALL_RESOURCE_SEEK, arg |-> id * BLOCK_SIZE,
                      result |-> seek_result]
             read == [call |-> SYSCALL_RESOURCE_READ, arg |-> BLOCK_SIZE, result |-> read_len]
         IN  IF seek_result < 0
             THEN [res |-> Err(from_raw(seek_result)), traps |-> <<seek>>]
             ELSE IF read_len # BLOCK_SIZE   \* read_len as usize: a negative value is not 4096
             THEN [res |-> IF read_len < 0 THEN Err(from_raw(read_len)) ELSE Err("EIO"),
                   traps |-> <<seek, read>>]
             ELSE [res |-> Ok(0), traps |-> <<seek, read>>]

\* Sahne64Device::write_block(id, data) with data.len() = data_len
sahne64_write_block(id, data_len, seek_result, write_len) ==
    IF data_len # BLOCK_SIZE THEN [res |-> Err("EINVAL"), traps |-> <<>>]
    ELSE LET seek == [call |-> SYSCALL_RESOURCE_SEEK, arg |-> id * BLOCK_SIZE,
                      result |-> seek_result]
             write == [call |-> SYSCALL_RESOURCE_WRITE, arg |-> BLOCK_SIZE,
                       result |-> write_len]
         IN  IF seek_result < 0
             THEN [res |-> Err(from_raw(seek_result)), traps |-> <<seek>>]
             ELSE IF write_len # BLOCK_SIZE
             THEN [res |-> IF write_len < 0 THEN Err(from_raw(write_len)) ELSE Err("EIO"),
                   traps |-> <<seek, write>>]
             ELSE [res |-> Ok(0), traps |-> <<seek, write>>]

\* The results the host returns for the traps of a call are drawn from error
\* codes, known and unknown, and from positions or byte counts.
HostRead ==
    /\ \E id \in {0, 1, 3}, len \in {0, 4095, 4096, 4097} :
         \E seek_result \in {-1001, -1002, -1004, -7, 0, 8192},
            read_len \in {-1001, -1003, -1004, -9, 0, 1, 4095, 4096, 4097, 8192} :
           \E o \in {sahne64_read_block(id, len, seek_result, read_len)} :
               host' = [op |-> "read_block", id |-> id, len |-> len,
                        traps |-> o.traps, res |-> o.res]
    /\ UNCHANGED <<fsvars, mvars, summed, thr, locks, thist>>

HostWrite ==
    /\ \E id \in {0, 1, 3}, len \in {0, 4095, 4096, 4097} :
         \E seek_result \in {-1001, -1002, -1004, -7, 0, 8192},
            write_len \in {-1001, -1003, -1004, -9, 0, 1, 4095, 4096, 4097, 8192} :
           \E o \in {sahne64_write_block(id, len, seek_result, write_len)} :
               host' = [op |-> "write_block", id |-> id, len |-> len,
                        traps |-> o.traps, res |-> o.res]
    /\ UNCHANGED <<fsvars, mvars, summed, thr, locks, thist>>

SpecHost == InitRoutines /\ [][HostRead \/ HostWrite]_vars

-----------------------------------------------------------------------------
(* allocator.rs under threads: two threads call allocate_block on one      *)
(* Allocator over the device `dev`, one step of the call at a time.        *)
(* thr[t].pc is the position of thread t: "idle" outside the call,         *)
(* "acquire" before lock.acquire(), "get" before cache.get_block, "set"    *)
(* before find_free_bit, "release" before lock.release().  A SysLock is     *)
(* held by at most one thread; acquire waits while it is held.             *)

MaxThreadCalls == 2

\* a thread enters allocate_block
ThreadCall(t) ==
    /\ thr[t].pc = "idle"
    /\ thr[t].calls < MaxThreadCalls
    /\ thr' = [thr EXCEPT ![t].pc = "acquire", ![t].calls = @ + 1, ![t].i = 0,
                          ![t].entry = NoEntry, ![t].res = Ok(-1),
                          ![t].cache_locked = FALSE]
    /\ UNCHANGED <<fsvars, mvars, summed, host, locks, thist>>

\* self.lock.acquire()
ThreadAcquire(t) ==
    /\ thr[t].pc = "acquire"
    /\ locks.allocator = 0
    /\ locks' = [locks EXCEPT !.allocator = t]
    /\ thr' = [thr EXCEPT ![t].pc = "get"]
    /\ UNCHANGED <<fsvars, mvars, summed, host, thist>>

\* self.cache.get_block(bitmap_start_id + i)?: the cache lock is not taken;
\* on an error the call returns with the allocator lock held
ThreadGetBlock(t) ==
    /\ thr[t].pc = "get"
    /\ \E a \in {AllocatorNew(dev, 1, 0, 1).val} :
         \E f \in {0} \cup (IF thist.faults < MaxFaults THEN {1, 2} ELSE {}) :
           \E g \in {get_block(dev, a.bitmap_start_id + thr[t].i, f, 1)} :
               IF g.res.ok
               THEN /\ thr' = [thr EXCEPT ![t].pc = "set", ![t].entry = g.res.val,
                                          ![t].cache_locked = (locks.cache = t)]
                    /\ UNCHANGED thist
               ELSE /\ thr' = [thr EXCEPT ![t].pc = "idle",
                                          ![t].res = Err(Error("Allocator", "DeviceError",
                                                               g.res.err))]
                    /\ thist' = [thist EXCEPT !.faults = @ + 1]
    /\ UNCHANGED <<fsvars, mvars, summed, host, locks>>

\* find_free_bit, and when a bit was found: set it in the entry, mark the
\* entry dirty, compute the LBA
ThreadSetBit(t) ==
    /\ thr[t].pc = "set"
    /\ \E a \in {AllocatorNew(dev, 1, 0, 1).val} :
         \E bit \in {find_free_bit(thr[t].entry.data)} :
           IF bit # <<>>
           THEN \E data \in {SetBit(thr[t].entry.data, bit[1], bit[2])} :
                  /\ thr' = [thr EXCEPT
                                ![t].pc = "release",
                                ![t].entry = CacheBlock(thr[t].entry.block_id, data, TRUE),
                                ![t].cache_locked = (@ /\ locks.cache = t),
                                ![t].res = Ok(thr[t].i * BLOCKS_PER_BITMAP_BLOCK
                                              + bit[1] * 8 + bit[2])]
                  /\ thist' = [thist EXCEPT !.latest = [by |-> t, data |-> data]]
           ELSE /\ thr' = [thr EXCEPT
                              ![t].pc = IF thr[t].i + 1 < a.bitmap_block_count
                                        THEN "get" ELSE "release",
                              ![t].i = @ + 1,
                              ![t].res = Err(Error("Allocator", "OutOfSpace", "-"))]
                /\ UNCHANGED thist
    /\ UNCHANGED <<fsvars, mvars, summed, host, locks>>

\* self.lock.release() and the return of the call
ThreadRelease(t) ==
    /\ thr[t].pc = "release"
    /\ locks' = [locks EXCEPT !.allocator = 0]
    /\ thr' = [thr EXCEPT ![t].pc = "idle"]
    /\ thist' = [thist EXCEPT !.handed = IF thr[t].res.ok THEN Append(@, thr[t].res.val)
                                         ELSE @]
    /\ UNCHANGED <<fsvars, mvars, summed, host>>

SpecThreads ==
    InitRoutines /\ [][\E t \in {1, 2} : \/ ThreadCall(t)
                                        \/ ThreadAcquire(t)
                                        \/ ThreadGetBlock(t)
                                        \/ ThreadSetBit(t)
                                        \/ ThreadRelease(t)]_vars

\* C30: at most one thread is between the acquire and the release of the
\* allocator lock at a time, and no two calls of allocate_block return the
\* same LBA.
C30_ConcurrentAllocation ==
    /\ ~(thr[1].pc \in {"get", "set", "release"} /\ thr[2].pc \in {"get", "set", "release"})
    /\ \A m, n \in 1..Len(thist.handed) : m # n => thist.handed[m] # thist.handed[n]

\* C26: a thread reads and marks a cache entry only while it holds the cache
\* lock, and the bytes get_block gives it for a block are those of the latest
\* completed mutation of that block by the other thread.
C26_CacheSerialised ==
    \A t \in {1, 2} :
        thr[t].pc \in {"set", "release"}
            => /\ thr[t].cache_locked
               /\ (thr[t].pc = "set" /\ thist.latest.by \notin {0, t})
                      => thr[t].entry.data = thist.latest.data

-----------------------------------------------------------------------------
(* Frame and result of the allocator and of create_file, error propagation *)

\* C31: an allocate_block that succeeds changes exactly one bit of the bitmap,
\* from 0 to 1, the bit of the LBA it returns, marks the bitmap block of that
\* bit dirty and leaves every other bit and every block outside the bitmap
\* region as it was; an allocate_block that returns an error changes no bit.
C31_AllocateFrame ==
    [][(ret'.op = "allocate_block" /\ ret'.status # "blocked" /\ nops' = nops + 1)
          => LET a == fs.allocator
                 region == a.bitmap_start_id..(a.bitmap_start_id + a.bitmap_block_count - 1)
                 lba == hist'.got[1]
                 i == lba \div BLOCKS_PER_BITMAP_BLOCK
                 bit == lba % BLOCKS_PER_BITMAP_BLOCK
             IN  /\ ret'.status = "ok"
                        => /\ BitmapBit(dev, a, lba) = 0
                           /\ OnDiskBitmap(dev', a)
                                  = [OnDiskBitmap(dev, a) EXCEPT
                                        ![i + 1] = SetBit(@, bit \div 8, bit % 8)]
                           /\ entry'.block_id = a.bitmap_start_id + i
                           /\ entry'.is_dirty
                 /\ ret'.status = "err"
                        => /\ OnDiskBitmap(dev', a) = OnDiskBitmap(dev, a)
                           /\ entry' = entry
                 /\ \A id \in (0..(total_blocks(dev) - 1)) \ region :
                        BlockOf(dev', id) = BlockOf(dev, id)]_vars

\* C32: a create_file(size) that succeeds has allocated two distinct blocks,
\* the inode block and the data-tree root, neither of them block 0, a block
\* of the bitmap region or the metadata root; the inode it returns has
\* file_size = size, block_count = 0, file_type = 1, link_count = 1 and
\* data_tree_root = the second block; and the cache entry of the inode block
\* holds that inode with its checksum and is dirty.
C32_CreateFileResult ==
    (ret.op = "create_file" /\ ret.status = "ok")
        => LET a == fs.allocator
               region == a.bitmap_start_id..(a.bitmap_start_id + a.bitmap_block_count - 1)
               ino == hist.inode
           IN  /\ Len(hist.got) = 2
               /\ hist.got[1] # hist.got[2]
               /\ \A i \in 1..2 : /\ hist.got[i] # 0
                                  /\ hist.got[i] \notin region
                                  /\ hist.got[i] # fs.metadata_tree.root_id
               /\ ino.file_size = hist.asked
               /\ ino.block_count = 0
               /\ ino.file_type = 1
               /\ ino.link_count = 1
               /\ ino.data_tree_root = hist.got[2]
               /\ entry.block_id = hist.got[1]
               /\ entry.is_dirty
               /\ Field(entry.data, INO_FILE_SIZE, 8) = LE(hist.asked, 8)
               /\ Field(entry.data, INO_BLOCK_COUNT, 8) = LE(0, 8)
               /\ Byte(entry.data, INO_FILE_TYPE + 1) = 1
               /\ Field(entry.data, INO_DATA_TREE_ROOT, 8) = LE(hist.got[2], 8)
               /\ Field(entry.data, INO_LINK_COUNT, 4) = LE(1, 4)
               /\ Field(entry.data, INO_CHECKSUM, 4) = ino.checksum

\* the same program, started on a volume that mounts, either with free
\* blocks or with every bit of its bitmap block set
InitErrors ==
    /\ dev \in {SelfCheckedVolume,
                [SelfCheckedVolume EXCEPT !.blocks[1] = [i \in 1..BLOCK_SIZE |-> 255]]}
    /\ fs = NoFs
    /\ ret = Done("-")
    /\ devOps = <<>>
    /\ entry = NoEntry
    /\ hist = [faults |-> 0, allocs |-> <<>>, got |-> <<>>, run |-> <<>>, base |-> -1,
               reserved |-> 0, committed |-> NoCommit, syncs |-> 0, halt |-> NoHalt,
               inode |-> NoInode, asked |-> -1, fault_at |-> 0,
               tampered |-> FALSE, built |-> <<>>,
               freed |-> <<>>, story |-> 0]
    /\ nops = 0
    /\ mirror = NoMirror
    /\ mret = NoMirrorRet
    /\ mhist = NoMirrorHist
    /\ RoutinesIdle

\* the entry points that build or use a handle, and the loss of the handle
SpecErrors == InitErrors /\ [][Format \/ Mount \/ CreateFile \/ Halt]_vars

\* C33: a mount whose read of block 0 fails returns the error of the device
\* (not InvalidSuperblock) and no handle; a format or create_file in which an
\* allocate_block fails returns the error of the allocator (OutOfSpace when
\* no bit is free, else the error of the device call that failed) and no
\* handle, respectively no inode.  hist.fault_at is the host call that failed:
\* in mount 3 is the read of block 0; in format 4 and 5, in create_file 1, 2
\* (first allocate_block) and 3, 4 (second) are the memory allocation and the
\* read of the bitmap block.
C33_ErrorPropagation ==
    LET bitmap == BlockOf(dev, 1)
        full == Len(bitmap) = BLOCK_SIZE /\ \A i \in 1..BLOCK_SIZE : bitmap[i] = 255
        f == hist.fault_at
        AllocatorError(call) ==
            Error("Allocator", "DeviceError",
                  IF call % 2 = 1 THEN "from(ENOMEM)" ELSE DeviceFault)
        OutOfSpace == Error("Allocator", "OutOfSpace", "-")
    IN  /\ (ret.op = "mount" /\ f = 3)
               => /\ ret.status = "err"
                  /\ ret.err = Error("Device", DeviceFault, "-")
                  /\ ~fs.live
        /\ (ret.op = "format" /\ f \in {4, 5})
               => /\ ret.status = "err"
                  /\ ret.err = AllocatorError(f - 3)
                  /\ ~fs.live
        /\ (ret.op = "format" /\ f \notin 1..5 /\ full)
               => /\ ret.status = "err"
                  /\ ret.err = OutOfSpace
                  /\ ~fs.live
        /\ (/\ ret.op = "create_file" /\ ret.status # "blocked"
            /\ (f \in {1, 2} \/ (f \in {3, 4} /\ ~full)))
               => /\ ret.status = "err"
                  /\ ret.err = AllocatorError(f)
                  /\ hist.inode = NoInode
        /\ (ret.op = "create_file" /\ ret.status # "blocked" /\ f \notin {1, 2} /\ full)
               => /\ ret.status = "err"
                  /\ ret.err = OutOfSpace
                  /\ hist.inode = NoInode

\* a create_file has just returned OutOfSpace from its first allocate_block
C33_OutOfSpaceReached ==
    /\ ret.op = "create_file" /\ ret.status = "err"
    /\ ret.err = Error("Allocator", "OutOfSpace", "-")
    /\ hist.fault_at = 0
    /\ fs.live /\ hist.inode = NoInode

(* sahne_syscalls.rs on its own: SyscallError::from_raw applied to raw codes *)

\* One call of from_raw.  raw_code.abs() overflows on the least isize: a
\* build with overflow checks panics there, a build without them goes on with
\* the wrapped value; which of the two the crate is built as is not fixed by
\* the sources, so both are drawn.
FromRaw ==
    /\ \E raw_code \in (-1100..-900) \cup {-1, ISIZE_MIN + 1, ISIZE_MIN},
          overflow_checks \in BOOLEAN :
         host' = [op |-> "from_raw", id |-> raw_code, len |-> -1, traps |-> <<>>,
                  res |-> IF raw_code = ISIZE_MIN /\ overflow_checks
                          THEN Err("panic: attempt to negate with overflow")
                          ELSE Ok(from_raw(raw_code))]
    /\ UNCHANGED <<fsvars, mvars, summed, thr, locks, thist>>

SpecDecode == InitRoutines /\ [][FromRaw]_vars

\* C34: from_raw returns EIO for -1001, EINVAL for -1002, ENOMEM for -1003,
\* EAGAIN for -1004 and, for every other negative raw code v, Unknown(v) with
\* v as it was passed.
C34_FromRawDecodes ==
    host.op = "from_raw"
        => LET v == host.id
           IN  host.res = Ok(IF v = -1001 THEN "EIO"
                             ELSE IF v = -1002 THEN "EINVAL"
                             ELSE IF v = -1003 THEN "ENOMEM"
                             ELSE IF v = -1004 THEN "EAGAIN"
                             ELSE "Unknown(" \o ToString(v) \o ")")

=============================================================================
